---- MODULE Spec2Model ----
(***************************************************************************)
(* Server monitor: alert evaluation (monitor.SystemMonitor.CheckAlerts),   *)
(* the scheduler's metric cycle (scheduler.collectSystemMetrics), the      *)
(* WebSocket hub with the two pumps of every client (websocket.Hub,        *)
(* websocket.Client) and the client identifiers (generateClientID).        *)
(***************************************************************************)
EXTENDS Integers, Sequences, FiniteSets, TLC

(***************************************************************************)
(* Bounds of the model.                                                    *)
(***************************************************************************)
\* number of CheckAlerts evaluations explored
MaxCycles == 3
\* the number of evaluations made by a store whose writes can fail
MaxWriteCycles == 3
\* number of messages the metric cycle offers to the hub
MaxMsgs == 3
\* number of messages offered to the hub in the scenario
MaxScenarioMsgs == 6
\* capacity of a client's Send channel (make(chan []byte, 256)), scaled down
SendCap == 2
\* number of ping messages the clients send to their readPumps
MaxPings == 1
\* largest reading of the clock, in nanoseconds
MaxClock == 2
\* the width, in bits, of the network byte counters (64 in the code)
CounterBits == 22
\* the readings of the clock the monitor makes, in seconds since it was built
MaxSeconds == 4
\* number of runs of CheckAllServices
MaxChecks == 2
\* number of evaluations between the requests to resolve alerts
MaxResolveCycles == 3
\* number of rows of system_metrics and of network_traffic kept at a time
MaxRows == 1
\* number of evaluations between the data cleanups
MaxCleanupCycles == 2
\* number of job runs cron starts
MaxJobRuns == 3

(***************************************************************************)
(* Program constants.                                                      *)
(***************************************************************************)
AlertCPU == 80
AlertMemory == 80
AlertDisk == 90
\* len(letters) in randomString
LettersLen == 62
\* randomString(8)
RandLen == 8
\* the layout "20060102150405" keeps whole seconds: nanoseconds per second
NanosPerSecond == 1000000000
\* Limit(5) in the system log push job
LogPushLimit == 5
\* monitor.history_hours: the retention of metric rows, in hours
HistoryHours == 24
\* 7 * 24: the retention of resolved alerts, in hours
AlertRetentionHours == 168

KindSet == {"cpu", "memory", "disk"}

\* the cpu samples of the scenario: 70, 85, 90, 75 against the threshold 80
CpuSamples == <<70, 85, 90, 75>>

ClientIds == {"c1", "c2"}
\* the goroutines that call the hub's Broadcast* methods
Publishers == {"collect", "collect2", "logs", "broadcaster"}
\* no message blocked in h.Broadcast <- message
NoMsg == [type |-> "none", seq |-> 0, data |-> <<>>]
\* the ID of a client that was not created yet
NoID == <<>>

VARIABLES
    alerts,       \* the alerts table: sequence of rows, in primary-key order
    systemLogs,   \* the system_logs table: rows written by CheckAlerts
    metrics,      \* the SystemMetrics record of the latest evaluation
    cycle,        \* number of evaluations made
    checked,      \* what the latest CheckAlerts returned, and which of its
                  \* store writes succeeded
    savedMetrics, \* the system_metrics table: records stored by SaveMetrics
    Clients,      \* Hub.Clients: the registered clients
    Send,         \* Client.Send: the buffered content of each client's channel
    sendClosed,   \* whether close(client.Send) has been executed
    conn,         \* Client.Socket: "none", "open" or "closed"
    handler,      \* the ServeWebSocket handler: "none", "register" (blocked in
                  \* Hub.Register <- client) or "done"
    rp,           \* readPump: "none", "read", "pong" (blocked in c.Send <- data),
                  \* "unregister" (blocked in Hub.Unregister <- c), "closing", "done"
    wp,           \* writePump: "none", "run" or "done"
    pings,        \* number of ping messages the readPumps have received
    received,     \* the type of the message readPump handed to handleMessage
                  \* last
    pend,         \* per publisher: the message blocked in h.Broadcast <- message
    nextMsg,      \* sequence number of the next message offered to the hub
    published,    \* the messages the hub has taken from h.Broadcast, in order
    wire,         \* per client, what writePump has written to the socket: how
                  \* many "alert" messages of each alert status, and how many
                  \* log rows of each level inside "system_log" messages
    evicted,      \* the clients the hub removed because their channel was full
    panicked,     \* a goroutine panicked: the process has terminated
    ID,           \* Client.ID
    now,          \* the clock (time.Now), in nanoseconds
    lastNetworkStats, \* SystemMonitor.lastNetworkStats: interface name to the
                  \* counters stored by the previous sample
    lastNetworkTime,  \* SystemMonitor.lastNetworkTime, in seconds
    sensors,      \* what the probes answered in the latest CollectSystemMetrics
                  \* and the clock reading made in getNetworkSpeed
    collected,    \* what the latest CollectSystemMetrics returned: the record
                  \* (in hundredths), the error, and the error of
                  \* getNetworkSpeed
    networkTraffic, \* the latest CollectNetworkTraffic: what net.IOCounters
                  \* answered, the clock reading, the returned error and the
                  \* returned rows (speeds in hundredths) by interface name
    phase,        \* main: "run", "stopping" (in sched.Stop), "draining" (in
                  \* server.Shutdown) or "exited"
    ticker,       \* the goroutine of StartMetricsBroadcaster: "metrics" (before
                  \* its query of the newest record) or "services"
    serviceStatus, \* the service_status table: rows in primary-key order
    serviceRun,   \* the latest CheckAllServices: its number, what the four
                  \* checks were answered, the services checked, and the
                  \* returned error
    response,     \* the latest request PUT /api/v1/alerts/:id/resolve: the id,
                  \* whether the store answered the lookup and accepted the
                  \* write, and the status code of the answer
    stamps,       \* the time columns the store keeps, in hours: updated_at of
                  \* the rows of alerts, created_at of the rows of
                  \* system_metrics and of the rows of network_traffic
    clock,        \* time.Now, in hours since the start
    cleaned,      \* the number of rows the latest CleanupOldData deleted
    jobs,         \* per job run that cron can have started: where the run is,
                  \* the result of the cpu lookup of its CheckAlerts, the steps
                  \* of collectSystemMetrics it has made, and what SaveMetrics
                  \* returned to it
    started       \* number of job runs cron has started

alertVars == <<alerts, systemLogs, metrics, cycle, checked>>
pumpVars == <<conn, handler, rp, wp, pings, received>>
hubVars == <<Clients, Send, sendClosed, pend, nextMsg, published, evicted>>
idVars == <<ID, now>>
monVars == <<lastNetworkStats, lastNetworkTime, sensors, collected, networkTraffic>>
svcVars == <<serviceStatus, serviceRun>>
\* the variables the hub, the pumps and main leave alone
apiVars == <<response>>
dataVars == <<stamps, clock, cleaned>>
jobVars == <<jobs, started>>
otherVars == <<svcVars, apiVars, dataVars, jobVars>>
sysVars == <<phase, ticker, otherVars>>

vars == <<alerts, systemLogs, metrics, cycle, checked, savedMetrics, Clients, Send,
          sendClosed, conn, handler, rp, wp, pings, received, pend, nextMsg, published,
          wire, evicted, panicked, ID, now, lastNetworkStats, lastNetworkTime,
          sensors, collected, networkTraffic, phase, ticker, serviceStatus,
          serviceRun,
          response, stamps, clock, cleaned, jobs, started>>

Min(S) == CHOOSE x \in S : \A y \in S : x <= y

(***************************************************************************)
(* Alert evaluation.                                                       *)
(***************************************************************************)
Threshold(k) ==
    CASE k = "cpu" -> AlertCPU
      [] k = "memory" -> AlertMemory
      [] k = "disk" -> AlertDisk

\* the values of kind k fed to the evaluator: below, at and above its threshold
Values(k) == {Threshold(k) - 5, Threshold(k), Threshold(k) + 5}

MetricsRecords == [cpu : Values("cpu"), memory : Values("memory"), disk : Values("disk")]

\* a lookup that would leave out the condition on the type
FirstActive_AnyType(al, k) ==
    LET S == {i \in 1..Len(al) : al[i].status = "active"}
    IN IF S = {} THEN 0 ELSE Min(S)

\* Where("type = ? AND status = ?", k, "active").First(&existingAlert):
\* the index of the first matching row, 0 when there is none
FirstActive(al, k) ==
    LET S == {i \in 1..Len(al) : al[i].type = k /\ al[i].status = "active"}
    IN IF S = {} THEN 0 ELSE Min(S)

\* a variant of CheckKind that creates the alert without the log row
CheckKind_NoEvent(st, k, v, lookupOK) ==
    LET i == IF lookupOK THEN FirstActive(st.alerts, k) ELSE 0
    IN IF v > Threshold(k)
       THEN IF i = 0
            THEN [alerts |-> Append(st.alerts,
                                [id |-> Len(st.alerts) + 1, type |-> k,
                                 value |-> v, threshold |-> Threshold(k),
                                 status |-> "active"]),
                  logs |-> st.logs]
            ELSE [alerts |-> [st.alerts EXCEPT ![i].value = v],
                  logs |-> st.logs]
       ELSE IF i # 0
            THEN [alerts |-> [st.alerts EXCEPT ![i].status = "resolved"],
                  logs |-> Append(st.logs, [level |-> "info", kind |-> k])]
            ELSE st

\* one block of CheckAlerts (cpu, memory or disk) applied to the store st;
\* lookupOK = FALSE is a query that fails with a store error: result.Error
\* is then non-nil just as when no row matches
CheckKind(st, k, v, lookupOK) ==
    LET i == IF lookupOK THEN FirstActive(st.alerts, k) ELSE 0
    IN IF v > Threshold(k)
       THEN IF i = 0
            THEN [alerts |-> Append(st.alerts,
                                [id |-> Len(st.alerts) + 1, type |-> k,
                                 value |-> v, threshold |-> Threshold(k),
                                 status |-> "active"]),
                  logs |-> Append(st.logs, [level |-> "warning", kind |-> k])]
            ELSE [alerts |-> [st.alerts EXCEPT ![i].value = v],
                  logs |-> st.logs]
       ELSE IF i # 0
            THEN [alerts |-> [st.alerts EXCEPT ![i].status = "resolved"],
                  logs |-> Append(st.logs, [level |-> "info", kind |-> k])]
            ELSE st

\* the outcomes of the store writes of the three blocks: all succeed, or
\* the writes named in one of FailedWrites fail
AllWritesOK == [k \in KindSet |-> [alert |-> TRUE, log |-> TRUE]]
FailedWrites ==
    {[cpu |-> {"alert"}, memory |-> {}, disk |-> {}],
     [cpu |-> {"alert", "log"}, memory |-> {}, disk |-> {}],
     [cpu |-> {}, memory |-> {"alert", "log"}, disk |-> {}],
     [cpu |-> {"alert", "log"}, memory |-> {"alert"}, disk |-> {}],
     [cpu |-> {}, memory |-> {}, disk |-> {"log"}]}
WriteOutcomes ==
    {[k \in KindSet |-> [alert |-> "alert" \notin f[k], log |-> "log" \notin f[k]]] :
        f \in FailedWrites}

\* CheckAlerts(metrics): the cpu, memory and disk blocks in source order
CheckAlertsResult(st, m, lk) ==
    LET s1 == CheckKind(st, "cpu", m.cpu, lk["cpu"])
        s2 == CheckKind(s1, "memory", m.memory, lk["memory"])
    IN CheckKind(s2, "disk", m.disk, lk["disk"])

CheckAlerts(m, lk) ==
    LET r == CheckAlertsResult([alerts |-> alerts, logs |-> systemLogs], m, lk)
    IN /\ alerts' = r.alerts
       /\ systemLogs' = r.logs
       /\ metrics' = m
       /\ cycle' = cycle + 1
       /\ checked' = [err |-> "nil", writes |-> AllWritesOK]

AllLookupsOK == [k \in KindSet |-> TRUE]

\* one block of CheckAlerts when its store writes can fail: w.alert is the
\* Create or Save of the alert row, w.log the Create of the log row; a write
\* that fails leaves its table as it was, and its error is not looked at
CheckKindStore(st, k, v, lookupOK, w) ==
    LET r == CheckKind(st, k, v, lookupOK)
    IN [alerts |-> IF w.alert THEN r.alerts ELSE st.alerts,
        logs |-> IF w.log THEN r.logs ELSE st.logs]

\* a CheckAlerts that would return after the first block with a failed write
CheckAlertsStoreResult_StopOnFailure(st, m, lk, w) ==
    LET s1 == CheckKindStore(st, "cpu", m.cpu, lk["cpu"], w["cpu"])
        s2 == CheckKindStore(s1, "memory", m.memory, lk["memory"], w["memory"])
    IN IF ~(w["cpu"].alert /\ w["cpu"].log)
       THEN s1
       ELSE IF ~(w["memory"].alert /\ w["memory"].log)
       THEN s2
       ELSE CheckKindStore(s2, "disk", m.disk, lk["disk"], w["disk"])

\* CheckAlerts(metrics) with store writes that can fail: the three blocks in
\* source order
CheckAlertsStoreResult(st, m, lk, w) ==
    LET s1 == CheckKindStore(st, "cpu", m.cpu, lk["cpu"], w["cpu"])
        s2 == CheckKindStore(s1, "memory", m.memory, lk["memory"], w["memory"])
    IN CheckKindStore(s2, "disk", m.disk, lk["disk"], w["disk"])

CheckAlertsStore(m, lk, w) ==
    LET r == CheckAlertsStoreResult([alerts |-> alerts, logs |-> systemLogs],
                                    m, lk, w)
    IN /\ alerts' = r.alerts
       /\ systemLogs' = r.logs
       /\ metrics' = m
       /\ cycle' = cycle + 1
       /\ checked' = [err |-> "nil", writes |-> w]

\* an evaluation with the store answering every query
Evaluate ==
    /\ cycle < MaxCycles
    /\ \E m \in MetricsRecords : CheckAlerts(m, AllLookupsOK)
    /\ UNCHANGED <<savedMetrics, monVars, sysVars, hubVars, pumpVars, wire, panicked, idVars>>

\* an evaluation in which at least one lookup fails with a store error
EvaluateLookupError ==
    /\ cycle < MaxCycles
    /\ \E m \in MetricsRecords :
        \E lk \in [KindSet -> BOOLEAN] :
            /\ lk # AllLookupsOK
            /\ CheckAlerts(m, lk)
    /\ UNCHANGED <<savedMetrics, monVars, sysVars, hubVars, pumpVars, wire, panicked, idVars>>

\* an evaluation of values off the thresholds by a store that answers every
\* query and can fail writes
EvaluateWrites ==
    /\ cycle < MaxWriteCycles
    /\ \E m \in {r \in MetricsRecords : \A k \in KindSet : r[k] # Threshold(k)} :
        \E w \in WriteOutcomes \cup {AllWritesOK} :
            CheckAlertsStore(m, AllLookupsOK, w)
    /\ UNCHANGED <<savedMetrics, monVars, sysVars, hubVars, pumpVars, wire, panicked, idVars>>

(***************************************************************************)
(* The WebSocket hub and the two pumps of every client.                    *)
(***************************************************************************)
Pong == [type |-> "pong", seq |-> 0, data |-> <<>>]

\* the place of a message in the order in which the hub took the messages
PosIn(pub, m) == CHOOSE i \in 1..Len(pub) : pub[i].seq = m.seq

\* randomString(n): every byte is letters[time.Now().UnixNano() % len(letters)];
\* a letter is modelled by its index in letters
randomString(n, t) == [i \in 1..n |-> t % LettersLen]

\* generateClientID: time.Now().Format("20060102150405") + "-" + randomString(8);
\* every clock reading of one call returns t
generateClientID(t) == <<t \div NanosPerSecond, randomString(RandLen, t)>>

\* the clock advances
Tick ==
    /\ ~panicked
    /\ now < MaxClock
    /\ now' = now + 1
    /\ UNCHANGED <<alertVars, savedMetrics, monVars, sysVars, hubVars, pumpVars, wire, panicked, ID>>

\* ServeWebSocket up to its send on Hub.Register
ServeWebSocket(c) ==
    /\ ~panicked
    /\ handler[c] = "none"
    /\ ID' = [ID EXCEPT ![c] = generateClientID(now)]
    /\ conn' = [conn EXCEPT ![c] = "open"]
    /\ handler' = [handler EXCEPT ![c] = "register"]
    /\ UNCHANGED <<alertVars, savedMetrics, monVars, sysVars, hubVars, rp, wp, pings, received, wire,
                   panicked, now>>

\* Hub.Run, case client := <-h.Register; the handler then starts both pumps
HubRegister(c) ==
    /\ ~panicked
    /\ handler[c] = "register"
    /\ Clients' = Clients \cup {c}
    /\ handler' = [handler EXCEPT ![c] = "done"]
    /\ wp' = [wp EXCEPT ![c] = "run"]
    /\ rp' = [rp EXCEPT ![c] = "read"]
    /\ UNCHANGED <<alertVars, savedMetrics, monVars, sysVars, Send, sendClosed, pend, nextMsg,
                   published, evicted, conn, pings, received, wire, panicked, idVars>>

\* a variant of HubUnregister without the membership test: close(client.Send)
\* on a channel that is already closed panics
HubUnregister_NoTest(c) ==
    /\ ~panicked
    /\ rp[c] = "unregister"
    /\ Clients' = Clients \ {c}
    /\ sendClosed' = [sendClosed EXCEPT ![c] = TRUE]
    /\ panicked' = sendClosed[c]
    /\ rp' = [rp EXCEPT ![c] = "closing"]
    /\ UNCHANGED <<alertVars, savedMetrics, monVars, sysVars, Send, pend, nextMsg, published, 
                   evicted, conn, handler, wp, pings, received, wire, idVars>>

\* Hub.Run, case client := <-h.Unregister; readPump goes on to Socket.Close
HubUnregister(c) ==
    /\ ~panicked
    /\ rp[c] = "unregister"
    /\ IF c \in Clients
       THEN /\ Clients' = Clients \ {c}
            /\ sendClosed' = [sendClosed EXCEPT ![c] = TRUE]
       ELSE UNCHANGED <<Clients, sendClosed>>
    /\ rp' = [rp EXCEPT ![c] = "closing"]
    /\ UNCHANGED <<alertVars, savedMetrics, monVars, sysVars, Send, pend, nextMsg, published, 
                   evicted, conn, handler, wp, pings, received, wire, panicked, idVars>>

\* the clients of S whose channel cannot take one more message
Full(S) == {c \in S : Len(Send[c]) >= SendCap}

\* a variant of HubBroadcast that drops the message for a full client and
\* keeps the client registered
HubBroadcast_KeepFull(p) ==
    /\ ~panicked
    /\ pend[p] # NoMsg
    /\ Send' = [c \in ClientIds |->
                    IF c \in Clients \ Full(Clients)
                    THEN Append(Send[c], pend[p]) ELSE Send[c]]
    /\ published' = Append(published, pend[p])
    /\ pend' = [pend EXCEPT ![p] = NoMsg]
    /\ UNCHANGED <<alertVars, savedMetrics, monVars, sysVars, Clients, sendClosed, evicted, nextMsg,
                   pumpVars, wire, panicked, idVars>>

\* a variant of HubBroadcast that closes the channel of a full client and
\* leaves the client in the set
HubBroadcast_CloseOnly(p) ==
    /\ ~panicked
    /\ pend[p] # NoMsg
    /\ Send' = [c \in ClientIds |->
                    IF c \in Clients \ Full(Clients)
                    THEN Append(Send[c], pend[p]) ELSE Send[c]]
    /\ sendClosed' = [c \in ClientIds |-> sendClosed[c] \/ c \in Full(Clients)]
    /\ evicted' = evicted \cup Full(Clients)
    /\ published' = Append(published, pend[p])
    /\ pend' = [pend EXCEPT ![p] = NoMsg]
    /\ UNCHANGED <<alertVars, savedMetrics, monVars, sysVars, Clients, nextMsg,
                   pumpVars, wire, panicked, idVars>>

\* Hub.Run, case message := <-h.Broadcast: a non-blocking send to every
\* client; a client whose channel is full is closed and deleted
HubBroadcast(p) ==
    /\ ~panicked
    /\ pend[p] # NoMsg
    /\ Send' = [c \in ClientIds |->
                    IF c \in Clients \ Full(Clients)
                    THEN Append(Send[c], pend[p]) ELSE Send[c]]
    /\ sendClosed' = [c \in ClientIds |-> sendClosed[c] \/ c \in Full(Clients)]
    /\ Clients' = Clients \ Full(Clients)
    /\ evicted' = evicted \cup Full(Clients)
    /\ published' = Append(published, pend[p])
    /\ pend' = [pend EXCEPT ![p] = NoMsg]
    /\ UNCHANGED <<alertVars, savedMetrics, monVars, sysVars, nextMsg, pumpVars, wire,
                   panicked, idVars>>

\* the send h.Broadcast <- message of the Broadcast* methods: the caller
\* blocks until the hub takes the message
OfferBroadcast(p, type, data) ==
    /\ pend[p] = NoMsg
    /\ pend' = [pend EXCEPT ![p] = [type |-> type, seq |-> nextMsg, data |-> data]]
    /\ nextMsg' = nextMsg + 1

\* the data of a message is the sequence of the rows it carries
BroadcastSystemMetrics(p, m) == OfferBroadcast(p, "system_metrics", <<m>>)

BroadcastServiceStatus(p, services) == OfferBroadcast(p, "service_status", services)

BroadcastAlert(p, alert) == OfferBroadcast(p, "alert", <<alert>>)

BroadcastSystemLog(p, logs) == OfferBroadcast(p, "system_log", logs)

\* c.Send <- data in handleMessage: a blocking send; on a closed channel it
\* panics, on a full channel it waits
SendPong(c) ==
    IF sendClosed[c]
    THEN /\ panicked' = TRUE
         /\ UNCHANGED <<Send, rp>>
    ELSE IF Len(Send[c]) < SendCap
         THEN /\ Send' = [Send EXCEPT ![c] = Append(Send[c], Pong)]
              /\ rp' = [rp EXCEPT ![c] = "read"]
              /\ UNCHANGED panicked
         ELSE /\ rp' = [rp EXCEPT ![c] = "pong"]
              /\ UNCHANGED <<Send, panicked>>

\* a handleMessage that would answer a message of any type like a ping
handleMessage_AnswerAll(c, t) ==
    SendPong(c)

\* a handleMessage that would, on a subscribe message, discard what is
\* queued for the client
handleMessage_SubscribeFlush(c, t) ==
    IF t = "ping"
    THEN SendPong(c)
    ELSE IF t = "subscribe"
         THEN /\ Send' = [Send EXCEPT ![c] = <<>>]
              /\ UNCHANGED <<rp, panicked>>
         ELSE UNCHANGED <<Send, rp, panicked>>

\* handleMessage(message) for a message of type t
handleMessage(c, t) ==
    IF t = "ping"
    THEN SendPong(c)
    ELSE UNCHANGED <<Send, rp, panicked>>

ControlTypes == {"subscribe", "ping", "other"}

\* readPump: ReadMessage returns a message, handleMessage runs
ReadMessage(c) ==
    /\ ~panicked
    /\ rp[c] = "read"
    /\ conn[c] = "open"
    /\ \E t \in ControlTypes :
        /\ t = "ping" => pings < MaxPings
        /\ pings' = IF t = "ping" THEN pings + 1 ELSE pings
        /\ received' = t
        /\ handleMessage(c, t)
    /\ UNCHANGED <<alertVars, savedMetrics, monVars, sysVars, Clients, sendClosed, pend, nextMsg,
                   published, evicted, conn, handler, wp, wire, idVars>>

\* readPump blocked in c.Send <- data: the send completes once the channel
\* has room, and panics once the channel is closed
PongUnblock(c) ==
    /\ ~panicked
    /\ rp[c] = "pong"
    /\ sendClosed[c] \/ Len(Send[c]) < SendCap
    /\ SendPong(c)
    /\ UNCHANGED <<alertVars, savedMetrics, monVars, sysVars, Clients, sendClosed, pend, nextMsg,
                   published, evicted, conn, handler, wp, pings, received, wire,
                   idVars>>

\* a readPump that would delete its client from the set itself on a read
\* error instead of asking the hub
ReadError_Direct(c) ==
    /\ ~panicked
    /\ rp[c] = "read"
    /\ rp' = [rp EXCEPT ![c] = "closing"]
    /\ Clients' = Clients \ {c}
    /\ UNCHANGED <<alertVars, savedMetrics, monVars, sysVars, Send, sendClosed, pend, nextMsg,
                   published, evicted, conn, handler, wp, pings, received, wire,
                   panicked, idVars>>

\* readPump: ReadMessage returns an error (peer gone, oversized message,
\* read deadline, socket closed); the deferred Hub.Unregister <- c blocks
ReadError(c) ==
    /\ ~panicked
    /\ rp[c] = "read"
    /\ rp' = [rp EXCEPT ![c] = "unregister"]
    /\ UNCHANGED <<alertVars, savedMetrics, monVars, sysVars, hubVars, conn, handler, wp, pings,
                   received, wire, panicked, idVars>>

\* readPump: the deferred c.Socket.Close() after the unregister was taken
ReadPumpClose(c) ==
    /\ ~panicked
    /\ rp[c] = "closing"
    /\ conn' = [conn EXCEPT ![c] = "closed"]
    /\ rp' = [rp EXCEPT ![c] = "done"]
    /\ UNCHANGED <<alertVars, savedMetrics, monVars, sysVars, hubVars, handler, wp, pings, received, wire,
                   panicked, idVars>>

\* the number of rows of message m whose field f is v
Rows(m, f, v) == Cardinality({i \in 1..Len(m.data) : m.data[i][f] = v})

\* what the client observes when writePump writes message m to the socket
Written(c, m) ==
    wire' = [wire EXCEPT ![c] =
                   CASE m.type = "alert" ->
                            [@ EXCEPT !.active = @ + Rows(m, "status", "active"),
                                      !.resolved = @ + Rows(m, "status", "resolved")]
                     [] m.type = "system_log" ->
                            [@ EXCEPT !.warning = @ + Rows(m, "level", "warning"),
                                      !.info = @ + Rows(m, "level", "info")]
                     [] OTHER -> @]

\* a variant of WriteMessage that takes the newest queued message first
WriteMessage_Newest(c) ==
    /\ ~panicked
    /\ wp[c] = "run"
    /\ Send[c] # <<>>
    /\ conn[c] = "open"
    /\ Send' = [Send EXCEPT ![c] = SubSeq(Send[c], 1, Len(Send[c]) - 1)]
    /\ Written(c, Send[c][Len(Send[c])])
    /\ UNCHANGED <<alertVars, savedMetrics, monVars, sysVars, Clients, sendClosed, pend, nextMsg,
                   published, evicted, pumpVars, panicked, idVars>>

\* writePump: a message is received from c.Send and written to the socket
WriteMessage(c) ==
    /\ ~panicked
    /\ wp[c] = "run"
    /\ Send[c] # <<>>
    /\ conn[c] = "open"
    /\ Send' = [Send EXCEPT ![c] = Tail(Send[c])]
    /\ Written(c, Head(Send[c]))
    /\ UNCHANGED <<alertVars, savedMetrics, monVars, sysVars, Clients, sendClosed, pend, nextMsg,
                   published, evicted, pumpVars, panicked, idVars>>

\* writePump: a message is received from c.Send and the write fails
\* (NextWriter or w.Close returns an error); the pump closes the socket
WriteFail(c) ==
    /\ ~panicked
    /\ wp[c] = "run"
    /\ Send[c] # <<>>
    /\ Send' = [Send EXCEPT ![c] = Tail(Send[c])]
    /\ wp' = [wp EXCEPT ![c] = "done"]
    /\ conn' = [conn EXCEPT ![c] = "closed"]
    /\ UNCHANGED <<alertVars, savedMetrics, monVars, sysVars, Clients, sendClosed, pend, nextMsg,
                   published, evicted, handler, rp, pings, received, wire,
                   panicked, idVars>>

\* writePump: c.Send is closed and drained (ok = false): close message, return
WriteClosed(c) ==
    /\ ~panicked
    /\ wp[c] = "run"
    /\ Send[c] = <<>>
    /\ sendClosed[c]
    /\ wp' = [wp EXCEPT ![c] = "done"]
    /\ conn' = [conn EXCEPT ![c] = "closed"]
    /\ UNCHANGED <<alertVars, savedMetrics, monVars, sysVars, hubVars, handler, rp, pings, received, wire,
                   panicked, idVars>>

\* writePump: the keepalive ping on the ticker fails; the pump closes the socket
KeepaliveFail(c) ==
    /\ ~panicked
    /\ wp[c] = "run"
    /\ wp' = [wp EXCEPT ![c] = "done"]
    /\ conn' = [conn EXCEPT ![c] = "closed"]
    /\ UNCHANGED <<alertVars, savedMetrics, monVars, sysVars, hubVars, handler, rp, pings, received, wire,
                   panicked, idVars>>

(***************************************************************************)
(* The scheduler's metric cycle.                                           *)
(***************************************************************************)
\* Scheduler.collectSystemMetrics for a collected record m: SaveMetrics,
\* CheckAlerts, then BroadcastSystemMetrics, which blocks until the hub takes
\* the message; the next run starts after this one has returned
collectSystemMetrics(m) ==
    /\ ~panicked
    /\ pend["collect"] = NoMsg
    /\ savedMetrics' = Append(savedMetrics, m)
    /\ CheckAlerts(m, AllLookupsOK)
    /\ BroadcastSystemMetrics("collect", m)
    /\ UNCHANGED <<Clients, Send, sendClosed, published, evicted, pumpVars,
                   wire, panicked, idVars, monVars, sysVars>>

\* the metric cycle while every value stays below its threshold
CollectBelow ==
    /\ nextMsg <= MaxMsgs
    /\ collectSystemMetrics([k \in KindSet |-> Min(Values(k))])

\* the metric cycle with the Timestamp CollectSystemMetrics gives its record
\* (time.Now()): a run starts after the previous one has returned, so its
\* reading is later than the Timestamp of every stored record; the readings
\* are counted in runs
CollectStamped ==
    /\ nextMsg <= MaxMsgs
    /\ collectSystemMetrics([cpu |-> Min(Values("cpu")),
                             memory |-> Min(Values("memory")),
                             disk |-> Min(Values("disk")),
                             timestamp |-> Len(savedMetrics) + 1])

\* Order("timestamp desc").Limit(n).Find(&logs): the n newest rows, newest first
NewestLogs(n) ==
    LET len == IF Len(systemLogs) < n THEN Len(systemLogs) ELSE n
    IN [i \in 1..len |-> systemLogs[Len(systemLogs) + 1 - i]]

\* the job of addSystemLogPushJob: the newest log rows are broadcast
pushSystemLogs ==
    /\ ~panicked
    /\ nextMsg <= MaxScenarioMsgs
    /\ BroadcastSystemLog("logs", NewestLogs(LogPushLimit))
    /\ UNCHANGED <<alertVars, savedMetrics, monVars, sysVars, Clients, Send, sendClosed, published,
                   evicted, pumpVars, wire, panicked, idVars>>

\* the subscriber of the scenario
ScenarioClients == {"c1"}

\* the scenario: the run starts once the subscriber is registered; memory and
\* disk stay low, the cpu follows CpuSamples
ScenarioCycle ==
    /\ \A c \in ScenarioClients : handler[c] = "done"
    /\ cycle < Len(CpuSamples)
    /\ collectSystemMetrics([cpu |-> CpuSamples[cycle + 1],
                             memory |-> Min(Values("memory")),
                             disk |-> Min(Values("disk"))])

(***************************************************************************)
(* The system monitor: CollectSystemMetrics and getNetworkSpeed.  Readings *)
(* of percentages are in thousandths of a percent, the fields of the       *)
(* returned record in hundredths (of a percent, of a MB/s).                *)
(***************************************************************************)
\* 1024 * 1024
MiB == 1048576

\* net.IOCounters(false) gives one aggregate entry named "all"; a second name
\* stands for any further entry of the list
IfNames == {"all", "eth0"}
SentValues == {0, 262144, 1048576}
RecvValues == {0, 786432}
IOCountersStat == [BytesSent : SentValues, BytesRecv : RecvValues]

\* the answers of net.IOCounters: an error, or counters for some interfaces
NetInputs ==
    {[err |-> TRUE, stats |-> <<>>]}
        \cup {[err |-> FALSE, stats |-> f] :
                 f \in UNION {[N -> IOCountersStat] : N \in SUBSET IfNames}}

\* the answers of cpu.Percent, mem.VirtualMemory, and of disk.Partitions
\* with disk.Usage for each partition
CpuInputs ==
    {[err |-> TRUE, percent |-> <<>>], [err |-> FALSE, percent |-> <<>>],
     [err |-> FALSE, percent |-> <<12345>>]}
MemInputs ==
    {[err |-> TRUE, UsedPercent |-> 0], [err |-> FALSE, UsedPercent |-> 45674]}
UsageInputs ==
    {[err |-> TRUE, UsedPercent |-> 0], [err |-> FALSE, UsedPercent |-> 30000],
     [err |-> FALSE, UsedPercent |-> 60125]}
DiskInputs ==
    {[err |-> TRUE, partitions |-> <<>>]}
        \cup {[err |-> FALSE, partitions |-> ps] :
                 ps \in {<<>>} \cup {<<u>> : u \in UsageInputs}
                           \cup {<<u, v>> : u \in UsageInputs, v \in UsageInputs}}

\* math.Round(num / den) for num >= 0 and den > 0: the nearest integer, a
\* half rounded away from zero
Round(num, den) == (2 * num + den) \div (2 * den)

\* the counters are unsigned: differences and sums wrap
CounterMod == 2 ^ CounterBits
Diff(cur, last) == (cur - last) % CounterMod

\* the loop of getNetworkSpeed over the names N: the sum of the differences
\* of field f for the interfaces that have a stored entry
RECURSIVE TotalBytes(_, _, _, _)
\* a loop that would take a missing stored entry for counters of zero
TotalBytes_NoBaseline(N, stats, last, f) ==
    IF N = {}
    THEN 0
    ELSE LET n == CHOOSE x \in N : TRUE
             d == IF n \in DOMAIN last
                  THEN Diff(stats[n][f], last[n][f])
                  ELSE stats[n][f]
         IN (d + TotalBytes(N \ {n}, stats, last, f)) % CounterMod

TotalBytes(N, stats, last, f) ==
    IF N = {}
    THEN 0
    ELSE LET n == CHOOSE x \in N : TRUE
             d == IF n \in DOMAIN last
                  THEN Diff(stats[n][f], last[n][f])
                  ELSE 0
         IN (d + TotalBytes(N \ {n}, stats, last, f)) % CounterMod

\* sm.lastNetworkStats after the loop: every entry of the sample is stored
StoreStats(stats, last) ==
    [n \in DOMAIN stats \cup DOMAIN last |->
        IF n \in DOMAIN stats THEN stats[n] ELSE last[n]]

\* a getNetworkSpeed without the test for a zero time difference, which
\* would take the difference for one second
getNetworkSpeed_NoZeroTest(netIn, t) ==
    LET timeDiff == IF t = lastNetworkTime THEN 1 ELSE t - lastNetworkTime
    IN IF netIn.err
       THEN [upload |-> 0, download |-> 0, err |-> "counters",
             stats |-> lastNetworkStats, time |-> lastNetworkTime]
       ELSE [upload |-> Round(100 * TotalBytes(DOMAIN netIn.stats, netIn.stats,
                                               lastNetworkStats, "BytesSent"),
                              MiB * timeDiff),
             download |-> Round(100 * TotalBytes(DOMAIN netIn.stats, netIn.stats,
                                                 lastNetworkStats, "BytesRecv"),
                                MiB * timeDiff),
             err |-> "nil",
             stats |-> StoreStats(netIn.stats, lastNetworkStats),
             time |-> t]

\* getNetworkSpeed when net.IOCounters answers netIn and time.Now reads t: the
\* speeds, the error, and the values of lastNetworkStats and lastNetworkTime
\* on return
getNetworkSpeed(netIn, t) ==
    LET timeDiff == t - lastNetworkTime
    IN IF netIn.err
       THEN [upload |-> 0, download |-> 0, err |-> "counters",
             stats |-> lastNetworkStats, time |-> lastNetworkTime]
       ELSE IF timeDiff = 0
       THEN [upload |-> 0, download |-> 0, err |-> "time difference is zero",
             stats |-> lastNetworkStats, time |-> lastNetworkTime]
       ELSE [upload |-> Round(100 * TotalBytes(DOMAIN netIn.stats, netIn.stats,
                                               lastNetworkStats, "BytesSent"),
                              MiB * timeDiff),
             download |-> Round(100 * TotalBytes(DOMAIN netIn.stats, netIn.stats,
                                                 lastNetworkStats, "BytesRecv"),
                                MiB * timeDiff),
             err |-> "nil",
             stats |-> StoreStats(netIn.stats, lastNetworkStats),
             time |-> t]

RECURSIVE SumUsage(_)
SumUsage(us) ==
    IF us = <<>> THEN 0 ELSE Head(us).UsedPercent + SumUsage(Tail(us))

\* the disk field: the mean over the partitions whose disk.Usage succeeded
DiskField(diskIn) ==
    LET usable == SelectSeq(diskIn.partitions, LAMBDA u : ~u.err)
    IN IF diskIn.err \/ usable = <<>>
       THEN 0
       ELSE Round(SumUsage(usable), 10 * Len(usable))

\* a CollectSystemMetrics that would give up, with an error and an empty
\* record, when the CPU probe fails
CollectSystemMetrics_FailOnCpu(cpuIn, memIn, diskIn, netIn, t) ==
    LET net == getNetworkSpeed(netIn, t)
    IN /\ collected' =
              IF cpuIn.err
              THEN [metrics |-> [CPU |-> 0, Memory |-> 0, Disk |-> 0,
                                 Upload |-> 0, Download |-> 0],
                    err |-> "cpu", netErr |-> net.err]
              ELSE [metrics |->
                        [CPU |-> IF Len(cpuIn.percent) > 0
                                 THEN Round(cpuIn.percent[1], 10) ELSE 0,
                         Memory |-> IF memIn.err THEN 0
                                    ELSE Round(memIn.UsedPercent, 10),
                         Disk |-> DiskField(diskIn),
                         Upload |-> IF net.err # "nil" THEN 0 ELSE net.upload,
                         Download |-> IF net.err # "nil" THEN 0
                                      ELSE net.download],
                    err |-> "nil", netErr |-> net.err]
       /\ sensors' = [cpu |-> cpuIn, memory |-> memIn, disk |-> diskIn,
                      time |-> t]
       /\ lastNetworkStats' = net.stats
       /\ lastNetworkTime' = net.time
       /\ UNCHANGED <<alertVars, savedMetrics, networkTraffic, hubVars, pumpVars, wire,
                      panicked, idVars, sysVars>>

\* SystemMonitor.CollectSystemMetrics for the answers of the four probes and
\* the clock reading t
CollectSystemMetrics(cpuIn, memIn, diskIn, netIn, t) ==
    LET net == getNetworkSpeed(netIn, t)
    IN /\ collected' =
              [metrics |->
                   [CPU |-> IF ~cpuIn.err /\ Len(cpuIn.percent) > 0
                            THEN Round(cpuIn.percent[1], 10) ELSE 0,
                    Memory |-> IF memIn.err THEN 0
                               ELSE Round(memIn.UsedPercent, 10),
                    Disk |-> DiskField(diskIn),
                    Upload |-> IF net.err # "nil" THEN 0 ELSE net.upload,
                    Download |-> IF net.err # "nil" THEN 0 ELSE net.download],
               err |-> "nil", netErr |-> net.err]
       /\ sensors' = [cpu |-> cpuIn, memory |-> memIn, disk |-> diskIn,
                      time |-> t]
       /\ lastNetworkStats' = net.stats
       /\ lastNetworkTime' = net.time
       /\ UNCHANGED <<alertVars, savedMetrics, networkTraffic, hubVars, pumpVars, wire,
                      panicked, idVars, sysVars>>

\* the probes of CPU, memory and disk answering without error
CpuOK == [err |-> FALSE, percent |-> <<12345>>]
MemOK == [err |-> FALSE, UsedPercent |-> 45674]
DiskOK == [err |-> FALSE,
           partitions |-> <<[err |-> FALSE, UsedPercent |-> 30000]>>]

\* a metric collection on a host whose CPU, memory and disk probes answer
CollectNetwork ==
    \E netIn \in NetInputs : \E t \in lastNetworkTime..MaxSeconds :
        CollectSystemMetrics(CpuOK, MemOK, DiskOK, netIn, t)

\* the answers of net.IOCounters on a host with the aggregate entry only
AggregateInputs ==
    {[err |-> TRUE, stats |-> <<>>]}
        \cup {[err |-> FALSE,
               stats |-> [n \in {"all"} |-> [BytesSent |-> b, BytesRecv |-> 0]]] :
                 b \in {0, 1048576}}

\* a metric collection with any of the probes failing, at once or a second
\* after the previous sample of the network counters
CollectProbes ==
    \E cpuIn \in CpuInputs : \E memIn \in MemInputs : \E diskIn \in DiskInputs :
        \E netIn \in AggregateInputs :
            \E t \in {lastNetworkTime, lastNetworkTime + 1} :
                /\ t <= MaxSeconds
                /\ CollectSystemMetrics(cpuIn, memIn, diskIn, netIn, t)

(***************************************************************************)
(* The system monitor: CollectNetworkTraffic.  Speeds are in hundredths of *)
(* MB/s.                                                                   *)
(***************************************************************************)
\* the speed of counter f of the interface name in CollectNetworkTraffic: the
\* difference to the stored entry over the time since lastNetworkTime, 0
\* when there is no stored entry or no time has passed
TrafficSpeed(stat, name, t, f) ==
    IF name \in DOMAIN lastNetworkStats /\ t - lastNetworkTime > 0
    THEN Round(100 * Diff(stat[f], lastNetworkStats[name][f]),
               MiB * (t - lastNetworkTime))
    ELSE 0

\* the rows CollectNetworkTraffic builds from the counters stats
TrafficRows(stats, t) ==
    [n \in DOMAIN stats |->
        [Upload |-> stats[n].BytesSent,
         Download |-> stats[n].BytesRecv,
         UploadSpeed |-> TrafficSpeed(stats[n], n, t, "BytesSent"),
         DownloadSpeed |-> TrafficSpeed(stats[n], n, t, "BytesRecv")]]

\* a CollectNetworkTraffic that would store its sample as getNetworkSpeed
\* does
CollectNetworkTraffic_StoreSample(netIn, t) ==
    IF netIn.err
    THEN [err |-> "counters", rows |-> <<>>,
          stats |-> lastNetworkStats, time |-> lastNetworkTime]
    ELSE [err |-> "nil", rows |-> TrafficRows(netIn.stats, t),
          stats |-> StoreStats(netIn.stats, lastNetworkStats), time |-> t]

\* CollectNetworkTraffic when net.IOCounters answers netIn and time.Now reads
\* t: the error, the rows, and the values of lastNetworkStats and
\* lastNetworkTime on return
CollectNetworkTraffic(netIn, t) ==
    IF netIn.err
    THEN [err |-> "counters", rows |-> <<>>,
          stats |-> lastNetworkStats, time |-> lastNetworkTime]
    ELSE [err |-> "nil", rows |-> TrafficRows(netIn.stats, t),
          stats |-> lastNetworkStats, time |-> lastNetworkTime]

\* the answers of net.IOCounters in the runs below: an error, the aggregate
\* entry, an interface, or both
TrafficInputs ==
    {[err |-> TRUE, stats |-> <<>>],
     [err |-> FALSE, stats |-> [n \in {"all"} |-> [BytesSent |-> 0, BytesRecv |-> 0]]],
     [err |-> FALSE,
      stats |-> [n \in {"all"} |-> [BytesSent |-> 262144, BytesRecv |-> 786432]]],
     [err |-> FALSE,
      stats |-> [n \in {"eth0"} |-> [BytesSent |-> 1048576, BytesRecv |-> 786432]]],
     [err |-> FALSE,
      stats |-> [n \in IfNames |->
                    IF n = "all"
                    THEN [BytesSent |-> 1048576, BytesRecv |-> 786432]
                    ELSE [BytesSent |-> 262144, BytesRecv |-> 0]]]}

\* a collection of the metrics job, whose getNetworkSpeed stores its sample
CollectSample ==
    \E netIn \in TrafficInputs : \E t \in lastNetworkTime..MaxSeconds :
        CollectSystemMetrics(CpuOK, MemOK, DiskOK, netIn, t)

\* a run of the network traffic job: the rows returned are the rows
\* SaveNetworkTraffic is given
CollectTraffic ==
    \E netIn \in TrafficInputs : \E t \in lastNetworkTime..MaxSeconds :
        LET r == CollectNetworkTraffic(netIn, t)
        IN /\ ~panicked
           /\ networkTraffic' = [input |-> netIn, time |-> t, err |-> r.err,
                                 rows |-> r.rows]
           /\ lastNetworkStats' = r.stats
           /\ lastNetworkTime' = r.time
           /\ UNCHANGED <<alertVars, savedMetrics, sensors, collected, hubVars,
                          pumpVars, wire, panicked, idVars, sysVars>>

(***************************************************************************)
(* The service monitor: CheckAllServices.  Response times are in           *)
(* milliseconds.                                                           *)
(***************************************************************************)
\* the services of CheckAllServices, in the order of its list: the database,
\* Web, mail and cloud storage services
Services == <<"database", "web", "mail", "storage">>

\* what a check meets: whether the connection (the HTTP request for the Web
\* service) succeeded, the HTTP status code, and the time it took
FailedDial == [dial |-> FALSE, code |-> 0, ms |-> 0]
Answer(code, ms) == [dial |-> TRUE, code |-> code, ms |-> ms]
ProbeInputs(name) ==
    CASE name = "database" ->
            {FailedDial, Answer(0, 50), Answer(0, 100), Answer(0, 500)}
      [] name = "web" -> {FailedDial, Answer(200, 150), Answer(200, 1000)}
      [] name = "mail" -> {FailedDial, Answer(0, 50)}
      [] name = "storage" -> {Answer(0, 99), Answer(0, 600)}

\* checkDatabaseService: the status, the response time and whether an error
\* is returned
checkDatabaseService(p) ==
    IF ~p.dial
    THEN [status |-> "error", response |-> 0, err |-> TRUE]
    ELSE IF p.ms < 100
    THEN [status |-> "running", response |-> p.ms, err |-> FALSE]
    ELSE IF p.ms < 500
    THEN [status |-> "warning", response |-> p.ms, err |-> FALSE]
    ELSE [status |-> "error", response |-> p.ms, err |-> TRUE]

\* checkWebService
checkWebService(p) ==
    IF ~p.dial
    THEN [status |-> "error", response |-> 0, err |-> TRUE]
    ELSE IF p.code >= 200 /\ p.code < 400
    THEN IF p.ms < 200
         THEN [status |-> "running", response |-> p.ms, err |-> FALSE]
         ELSE IF p.ms < 1000
         THEN [status |-> "warning", response |-> p.ms, err |-> FALSE]
         ELSE [status |-> "error", response |-> p.ms, err |-> TRUE]
    ELSE [status |-> "error", response |-> p.ms, err |-> TRUE]

\* checkMailService and checkStorageService have the statements of
\* checkDatabaseService
checkMailService(p) == checkDatabaseService(p)
checkStorageService(p) == checkDatabaseService(p)

\* service.check of the entry of the list named name
check(name, p) ==
    CASE name = "database" -> checkDatabaseService(p)
      [] name = "web" -> checkWebService(p)
      [] name = "mail" -> checkMailService(p)
      [] name = "storage" -> checkStorageService(p)

\* Where("name = ?", name).First(&serviceStatus): the index of the first
\* matching row, 0 when there is none
FirstByName(tab, name) ==
    LET S == {i \in 1..Len(tab) : tab[i].name = name}
    IN IF S = {} THEN 0 ELSE Min(S)

\* one iteration of the loop of CheckAllServices: the check, the row of
\* service_status created or updated, and the log row of logServiceEvent
CheckService(st, name, p) ==
    LET r == check(name, p)
        i == FirstByName(st.status, name)
    IN [status |-> IF i = 0
                   THEN Append(st.status,
                               [id |-> Len(st.status) + 1, name |-> name,
                                status |-> r.status, response |-> r.response])
                   ELSE [st.status EXCEPT ![i].status = r.status,
                                          ![i].response = r.response],
        logs |-> Append(st.logs,
                        [level |-> IF r.err THEN "error" ELSE "info",
                         kind |-> name]),
        checked |-> Append(st.checked, name),
        err |-> st.err]

RECURSIVE CheckAllServicesResult(_, _, _)
\* a loop that would return the error of the first failing check
CheckAllServicesResult_StopOnError(st, i, probes) ==
    IF i > Len(Services)
    THEN st
    ELSE IF check(Services[i], probes[Services[i]]).err
    THEN [st EXCEPT !.err = "check failed"]
    ELSE CheckAllServicesResult(CheckService(st, Services[i], probes[Services[i]]),
                                i + 1, probes)

\* the loop of CheckAllServices from the i-th service on
CheckAllServicesResult(st, i, probes) ==
    IF i > Len(Services)
    THEN st
    ELSE CheckAllServicesResult(CheckService(st, Services[i], probes[Services[i]]),
                                i + 1, probes)

\* ServiceMonitor.CheckAllServices when the checks meet probes
CheckAllServices(probes) ==
    LET r == CheckAllServicesResult([status |-> serviceStatus, logs |-> systemLogs,
                                     checked |-> <<>>, err |-> "nil"], 1, probes)
    IN /\ ~panicked
       /\ serviceRun.n < MaxChecks
       /\ serviceStatus' = r.status
       /\ systemLogs' = r.logs
       /\ serviceRun' = [n |-> serviceRun.n + 1, probes |-> probes,
                         checked |-> r.checked, err |-> r.err]
       /\ UNCHANGED <<alerts, metrics, cycle, checked, savedMetrics, monVars,
                      phase, ticker, jobVars, apiVars, dataVars, hubVars, pumpVars, wire,
                      panicked, idVars>>

\* a run of the service check job
CheckServices ==
    \E d \in ProbeInputs("database") : \E w \in ProbeInputs("web") :
        \E m \in ProbeInputs("mail") : \E s \in ProbeInputs("storage") :
            CheckAllServices([database |-> d, web |-> w, mail |-> m,
                              storage |-> s])

\* one iteration of the loop of CheckAllServices when the lookup of the row
\* can fail with a store error: result.Error is then not nil, as it is when
\* no row matches
CheckServiceStore(st, name, p, lookupOK) ==
    LET r == check(name, p)
        i == IF lookupOK THEN FirstByName(st.status, name) ELSE 0
    IN [status |-> IF i = 0
                   THEN Append(st.status,
                               [id |-> Len(st.status) + 1, name |-> name,
                                status |-> r.status, response |-> r.response])
                   ELSE [st.status EXCEPT ![i].status = r.status,
                                          ![i].response = r.response],
        logs |-> Append(st.logs,
                        [level |-> IF r.err THEN "error" ELSE "info",
                         kind |-> name]),
        checked |-> Append(st.checked, name),
        err |-> st.err]

\* the loop of CheckAllServices from the i-th service on, with the lookup
\* outcomes lk
RECURSIVE CheckAllServicesStoreResult(_, _, _, _)
CheckAllServicesStoreResult(st, i, probes, lk) ==
    IF i > Len(Services)
    THEN st
    ELSE CheckAllServicesStoreResult(
             CheckServiceStore(st, Services[i], probes[Services[i]],
                               lk[Services[i]]),
             i + 1, probes, lk)

\* the answers of four services that run
RunningProbes ==
    [database |-> Answer(0, 50), web |-> Answer(200, 150),
     mail |-> Answer(0, 50), storage |-> Answer(0, 99)]

\* a run of the service check job in which every service runs and at least
\* one lookup fails with a store error
CheckServicesLookupError ==
    \E lk \in [{"database", "web", "mail", "storage"} -> BOOLEAN] :
        LET r == CheckAllServicesStoreResult(
                     [status |-> serviceStatus, logs |-> systemLogs,
                      checked |-> <<>>, err |-> "nil"], 1, RunningProbes, lk)
        IN /\ ~panicked
           /\ \E n \in DOMAIN lk : ~lk[n]
           /\ serviceRun.n < MaxChecks
           /\ serviceStatus' = r.status
           /\ systemLogs' = r.logs
           /\ serviceRun' = [n |-> serviceRun.n + 1, probes |-> RunningProbes,
                             checked |-> r.checked, err |-> r.err]
           /\ UNCHANGED <<alerts, metrics, cycle, checked, savedMetrics, monVars,
                          phase, ticker, jobVars, apiVars, dataVars, hubVars,
                          pumpVars, wire, panicked, idVars>>

(***************************************************************************)
(* The HTTP API: ResolveAlert.                                             *)
(***************************************************************************)
\* First(&alert, alertID): the index of the row with that primary key, 0
\* when there is none
FirstById(al, id) ==
    LET S == {i \in 1..Len(al) : al[i].id = id}
    IN IF S = {} THEN 0 ELSE Min(S)

\* a handler that would save the alert without looking it up first: Save
\* inserts a row whose primary key is not in the table
ResolveAlert_NoLookup(id, lookupOK, saveOK) ==
    LET i == FirstById(alerts, id)
    IN /\ ~panicked
       /\ IF ~saveOK
          THEN /\ response' = [id |-> id, lookupOK |-> lookupOK,
                               saveOK |-> saveOK, code |-> 500]
               /\ UNCHANGED alerts
          ELSE /\ alerts' = IF i # 0
                            THEN [alerts EXCEPT ![i].status = "resolved"]
                            ELSE Append(alerts,
                                        [id |-> id, type |-> "", value |-> 0,
                                         threshold |-> 0, status |-> "resolved"])
               /\ response' = [id |-> id, lookupOK |-> lookupOK,
                               saveOK |-> saveOK, code |-> 200]
       /\ UNCHANGED <<systemLogs, metrics, cycle, checked, savedMetrics, monVars,
                      phase, ticker, jobVars, svcVars, dataVars, hubVars, pumpVars, wire,
                      panicked, idVars>>

\* ResolveAlert for the path parameter id; lookupOK = FALSE is a lookup that
\* fails with a store error, saveOK = FALSE a Save that fails
ResolveAlert(id, lookupOK, saveOK) ==
    LET i == IF lookupOK THEN FirstById(alerts, id) ELSE 0
    IN /\ ~panicked
       /\ IF i = 0
          THEN /\ response' = [id |-> id, lookupOK |-> lookupOK,
                               saveOK |-> saveOK, code |-> 404]
               /\ UNCHANGED alerts
          ELSE IF ~saveOK
          THEN /\ response' = [id |-> id, lookupOK |-> lookupOK,
                               saveOK |-> saveOK, code |-> 500]
               /\ UNCHANGED alerts
          ELSE /\ alerts' = [alerts EXCEPT ![i].status = "resolved"]
               /\ response' = [id |-> id, lookupOK |-> lookupOK,
                               saveOK |-> saveOK, code |-> 200]
       /\ UNCHANGED <<systemLogs, metrics, cycle, checked, savedMetrics, monVars,
                      phase, ticker, jobVars, svcVars, dataVars, hubVars, pumpVars, wire,
                      panicked, idVars>>

\* a request for the id of a stored alert, for 0, or for the id past the
\* newest alert; the store works, or fails the lookup, or fails the write
Resolve ==
    \E id \in 0..(Len(alerts) + 1) :
        \E ok \in {<<TRUE, TRUE>>, <<FALSE, TRUE>>, <<TRUE, FALSE>>} :
            ResolveAlert(id, ok[1], ok[2])

\* an evaluation of cpu and memory values off their thresholds while the
\* disk stays low, by a store that works
EvaluateCpuMemory ==
    /\ cycle < MaxResolveCycles
    /\ \E m \in {r \in MetricsRecords :
                    /\ r.cpu # Threshold("cpu")
                    /\ r.memory # Threshold("memory")
                    /\ r.disk < Threshold("disk")} :
           CheckAlerts(m, AllLookupsOK)
    /\ UNCHANGED <<savedMetrics, monVars, sysVars, hubVars, pumpVars, wire,
                   panicked, idVars>>

(***************************************************************************)
(* The store's time columns and CleanupOldData.                            *)
(***************************************************************************)
\* rows together with their time column
Zip(rows, at) == [i \in 1..Len(rows) |-> [row |-> rows[i], at |-> at[i]]]

\* the rows at the indices from i on that are in Keep
RECURSIVE KeepRows(_, _, _)
KeepRows(rows, i, Keep) ==
    IF i > Len(rows)
    THEN <<>>
    ELSE IF i \in Keep
    THEN <<rows[i]>> \o KeepRows(rows, i + 1, Keep)
    ELSE KeepRows(rows, i + 1, Keep)

\* the readings of the clock: the start, a retention window later, and
\* again after the retention of resolved alerts
ClockReadings ==
    {0, HistoryHours, AlertRetentionHours, AlertRetentionHours + HistoryHours,
     AlertRetentionHours + 2 * HistoryHours}

\* time passes up to a later reading of the clock
Hours ==
    /\ ~panicked
    /\ \E t \in ClockReadings :
        /\ t > clock
        /\ clock' = t
    /\ UNCHANGED <<alertVars, savedMetrics, monVars, phase, ticker, jobVars, svcVars,
                   apiVars, stamps, cleaned, hubVars, pumpVars, wire, panicked,
                   idVars>>

\* SaveMetrics: Create stores the record with created_at = now
SaveMetrics(m) ==
    /\ ~panicked
    /\ Len(savedMetrics) < MaxRows
    /\ savedMetrics' = Append(savedMetrics, m)
    /\ stamps' = [stamps EXCEPT !.metrics = Append(@, clock)]
    /\ UNCHANGED <<alertVars, monVars, phase, ticker, jobVars, svcVars, apiVars, clock,
                   cleaned, hubVars, pumpVars, wire, panicked, idVars>>

\* SaveNetworkTraffic for one interface: Create stores the row with
\* created_at = now
SaveNetworkTraffic ==
    /\ ~panicked
    /\ Len(stamps.traffic) < MaxRows
    /\ stamps' = [stamps EXCEPT !.traffic = Append(@, clock)]
    /\ UNCHANGED <<alertVars, savedMetrics, monVars, phase, ticker, jobVars, svcVars,
                   apiVars, clock, cleaned, hubVars, pumpVars, wire, panicked,
                   idVars>>

\* CheckAlerts with the time column: Create and Save set updated_at = now on
\* the row they write, which is the new row or the active row of its kind
CheckAlertsAt(m) ==
    /\ ~panicked
    /\ cycle < MaxCleanupCycles
    /\ CheckAlerts(m, AllLookupsOK)
    /\ stamps' = [stamps EXCEPT !.alerts =
                     [i \in 1..Len(alerts') |->
                         IF i > Len(alerts)
                            \/ i = FirstActive(alerts, alerts[i].type)
                         THEN clock ELSE @[i]]]
    /\ UNCHANGED <<savedMetrics, monVars, phase, ticker, jobVars, svcVars, apiVars,
                   clock, cleaned, hubVars, pumpVars, wire, panicked, idVars>>

\* a cleanup that would delete the alerts by their age alone
CleanupOldData_AnyStatus ==
    LET cutoffTime == clock - HistoryHours
        alertCutoffTime == clock - AlertRetentionHours
        KeepMetric == {i \in 1..Len(savedMetrics) :
                          ~(stamps.metrics[i] < cutoffTime)}
        KeepTraffic == {i \in 1..Len(stamps.traffic) :
                           ~(stamps.traffic[i] < cutoffTime)}
        KeepAlert == {i \in 1..Len(alerts) :
                         ~(stamps.alerts[i] < alertCutoffTime)}
    IN /\ ~panicked
       /\ savedMetrics' = KeepRows(savedMetrics, 1, KeepMetric)
       /\ alerts' = KeepRows(alerts, 1, KeepAlert)
       /\ stamps' = [alerts |-> KeepRows(stamps.alerts, 1, KeepAlert),
                     metrics |-> KeepRows(stamps.metrics, 1, KeepMetric),
                     traffic |-> KeepRows(stamps.traffic, 1, KeepTraffic)]
       /\ cleaned' = Len(savedMetrics) + Len(alerts) + Len(stamps.traffic)
                        - Len(savedMetrics') - Len(alerts') - Len(stamps'.traffic)
       /\ UNCHANGED <<systemLogs, metrics, cycle, checked, monVars, phase, ticker, jobVars,
                      svcVars, apiVars, clock, hubVars, pumpVars, wire, panicked,
                      idVars>>

\* database.CleanupOldData: the rows of system_metrics and network_traffic
\* created before the cutoff and the resolved alerts updated before theirs
\* are deleted
CleanupOldData ==
    LET cutoffTime == clock - HistoryHours
        alertCutoffTime == clock - AlertRetentionHours
        KeepMetric == {i \in 1..Len(savedMetrics) :
                          ~(stamps.metrics[i] < cutoffTime)}
        KeepTraffic == {i \in 1..Len(stamps.traffic) :
                           ~(stamps.traffic[i] < cutoffTime)}
        KeepAlert == {i \in 1..Len(alerts) :
                         ~(alerts[i].status = "resolved"
                           /\ stamps.alerts[i] < alertCutoffTime)}
    IN /\ ~panicked
       /\ savedMetrics' = KeepRows(savedMetrics, 1, KeepMetric)
       /\ alerts' = KeepRows(alerts, 1, KeepAlert)
       /\ stamps' = [alerts |-> KeepRows(stamps.alerts, 1, KeepAlert),
                     metrics |-> KeepRows(stamps.metrics, 1, KeepMetric),
                     traffic |-> KeepRows(stamps.traffic, 1, KeepTraffic)]
       /\ cleaned' = Len(savedMetrics) + Len(alerts) + Len(stamps.traffic)
                        - Len(savedMetrics') - Len(alerts') - Len(stamps'.traffic)
       /\ UNCHANGED <<systemLogs, metrics, cycle, checked, monVars, phase, ticker, jobVars,
                      svcVars, apiVars, clock, hubVars, pumpVars, wire, panicked,
                      idVars>>

\* the records stored between the cleanups: the cpu below or above its
\* threshold, memory and disk low
CleanupRecords ==
    {r \in MetricsRecords : /\ r.cpu # Threshold("cpu")
                            /\ r.memory < Threshold("memory")
                            /\ r.disk < Threshold("disk")}

(***************************************************************************)
(* The cron jobs as goroutines.  cron (built without a job wrapper) starts *)
(* every due entry in a goroutine of its own, whether or not an earlier    *)
(* run of the entry has returned; the metrics job and the network traffic  *)
(* job are both due at seconds 0 and 30.                                   *)
(***************************************************************************)
\* the runs of the metrics job that can be in progress at once; each is a
\* publisher of its own
MetricRuns == {"collect", "collect2"}
\* the run of the network traffic job
TrafficRuns == {"traffic"}
Runs == MetricRuns \cup TrafficRuns

\* a run that has not been started, or has returned
IdleRun == [pc |-> "idle", found |-> 0, steps |-> <<>>, saved |-> "none"]

\* the record a run of the metrics job collects: the cpu above its
\* threshold, memory and disk below theirs
JobRecord == [cpu |-> Threshold("cpu") + 5, memory |-> Min(Values("memory")),
              disk |-> Min(Values("disk"))]
\* the counters net.IOCounters reports to it
JobReading ==
    [err |-> FALSE,
     stats |-> [n \in {"all"} |-> [BytesSent |-> 0, BytesRecv |-> 0]]]

\* cron starts run r of its entry
CronStart(r) ==
    /\ ~panicked
    /\ phase = "run"
    /\ jobs[r].pc = "idle"
    /\ started < MaxJobRuns
    /\ jobs' = [jobs EXCEPT ![r] = [IdleRun EXCEPT !.pc = "start"]]
    /\ started' = started + 1
    /\ UNCHANGED <<alertVars, savedMetrics, monVars, phase, ticker, svcVars,
                   apiVars, dataVars, hubVars, pumpVars, wire, panicked, idVars>>

\* another goroutine is inside getNetworkSpeed, which reads and writes
\* lastNetworkStats and lastNetworkTime without a lock
Writing(r) == \E q \in MetricRuns \ {r} : jobs[q].pc = "speed"
\* another goroutine is inside the loop of CollectNetworkTraffic, which
\* reads them without a lock
Reading(r) == \E q \in TrafficRuns \ {r} : jobs[q].pc = "traffic"

\* collectSystemMetrics: CollectSystemMetrics reaches getNetworkSpeed.  A
\* map that is read or written while it is written is a data race: the
\* runtime may end the process with a fatal error, or not notice
CollectEnter(r) ==
    /\ ~panicked
    /\ jobs[r].pc = "start"
    /\ jobs' = [jobs EXCEPT ![r].pc = "speed"]
    /\ panicked' \in (IF Writing(r) \/ Reading(r) THEN BOOLEAN ELSE {FALSE})
    /\ UNCHANGED <<alertVars, savedMetrics, monVars, phase, ticker, svcVars,
                   apiVars, dataVars, started, hubVars, pumpVars, wire, idVars>>

\* getNetworkSpeed has stored its sample, a second after the previous one,
\* and CollectSystemMetrics returns the record
CollectReturn(r) ==
    LET net == getNetworkSpeed(JobReading, lastNetworkTime + 1)
    IN /\ ~panicked
       /\ jobs[r].pc = "speed"
       /\ lastNetworkStats' = net.stats
       /\ lastNetworkTime' = net.time
       /\ jobs' = [jobs EXCEPT ![r].pc = "save",
                               ![r].steps = Append(@, "collect")]
       /\ UNCHANGED <<alertVars, savedMetrics, sensors, collected, networkTraffic,
                      phase, ticker,
                      svcVars, apiVars, dataVars, started, hubVars, pumpVars,
                      wire, panicked, idVars>>

\* a collectSystemMetrics that would go on to the alerts after a failed
\* SaveMetrics
SaveStep_Continue(r, ok) ==
    /\ ~panicked
    /\ jobs[r].pc = "save"
    /\ savedMetrics' = IF ok THEN Append(savedMetrics, JobRecord)
                       ELSE savedMetrics
    /\ jobs' = [jobs EXCEPT ![r].pc = "evaluate",
                            ![r].saved = IF ok THEN "ok" ELSE "failed",
                            ![r].steps = Append(@, "save")]
    /\ UNCHANGED <<alertVars, monVars, phase, ticker, svcVars, apiVars, dataVars,
                   started, hubVars, pumpVars, wire, panicked, idVars>>

\* collectSystemMetrics: SaveMetrics; when it returns an error the run
\* returns
SaveStep(r, ok) ==
    /\ ~panicked
    /\ jobs[r].pc = "save"
    /\ savedMetrics' = IF ok THEN Append(savedMetrics, JobRecord)
                       ELSE savedMetrics
    /\ jobs' = [jobs EXCEPT ![r].pc = IF ok THEN "evaluate" ELSE "idle",
                            ![r].saved = IF ok THEN "ok" ELSE "failed",
                            ![r].steps = Append(@, "save")]
    /\ UNCHANGED <<alertVars, monVars, phase, ticker, svcVars, apiVars, dataVars,
                   started, hubVars, pumpVars, wire, panicked, idVars>>

\* collectSystemMetrics: CheckAlerts has made the lookup of its cpu block
CheckAlertsEnter(r) ==
    /\ ~panicked
    /\ jobs[r].pc = "evaluate"
    /\ jobs' = [jobs EXCEPT ![r].pc = "check",
                            ![r].found = FirstActive(alerts, "cpu")]
    /\ UNCHANGED <<alertVars, savedMetrics, monVars, phase, ticker, svcVars,
                   apiVars, dataVars, started, hubVars, pumpVars, wire, panicked,
                   idVars>>

\* the cpu block of CheckAlerts after its lookup found row i (0: no row):
\* Create of a new alert, or Save of the row as the lookup read it
CheckCpuFound(st, v, i) ==
    IF v > Threshold("cpu")
    THEN IF i = 0
         THEN [alerts |-> Append(st.alerts,
                             [id |-> Len(st.alerts) + 1, type |-> "cpu",
                              value |-> v, threshold |-> Threshold("cpu"),
                              status |-> "active"]),
               logs |-> Append(st.logs, [level |-> "warning", kind |-> "cpu"])]
         ELSE [alerts |-> [st.alerts EXCEPT ![i].value = v,
                                            ![i].status = "active"],
               logs |-> st.logs]
    ELSE st

\* CheckAlerts writes for its cpu block, runs its memory and disk blocks and
\* returns
CheckAlertsReturn(r) ==
    LET s1 == CheckCpuFound([alerts |-> alerts, logs |-> systemLogs],
                            JobRecord.cpu, jobs[r].found)
        s2 == CheckKind(s1, "memory", JobRecord.memory, TRUE)
        s3 == CheckKind(s2, "disk", JobRecord.disk, TRUE)
    IN /\ ~panicked
       /\ jobs[r].pc = "check"
       /\ alerts' = s3.alerts
       /\ systemLogs' = s3.logs
       /\ metrics' = JobRecord
       /\ cycle' = cycle + 1
       /\ checked' = [err |-> "nil", writes |-> AllWritesOK]
       /\ jobs' = [jobs EXCEPT ![r].pc = "broadcast",
                               ![r].steps = Append(@, "check")]
       /\ UNCHANGED <<savedMetrics, monVars, phase, ticker, svcVars, apiVars,
                      dataVars, started, hubVars, pumpVars, wire, panicked,
                      idVars>>

\* collectSystemMetrics: BroadcastSystemMetrics offers the record to the hub
BroadcastStep(r) ==
    /\ ~panicked
    /\ jobs[r].pc = "broadcast"
    /\ BroadcastSystemMetrics(r, JobRecord)
    /\ jobs' = [jobs EXCEPT ![r].pc = "blocked",
                            ![r].steps = Append(@, "broadcast")]
    /\ UNCHANGED <<alertVars, savedMetrics, monVars, phase, ticker, svcVars,
                   apiVars, dataVars, started, Clients, Send, sendClosed,
                   published, evicted, pumpVars, wire, panicked, idVars>>

\* the hub has taken the message: collectSystemMetrics returns
RunReturn(r) ==
    /\ ~panicked
    /\ jobs[r].pc = "blocked"
    /\ pend[r] = NoMsg
    /\ jobs' = [jobs EXCEPT ![r].pc = "idle"]
    /\ UNCHANGED <<alertVars, savedMetrics, monVars, phase, ticker, svcVars,
                   apiVars, dataVars, started, hubVars, pumpVars, wire, panicked,
                   idVars>>

\* collectNetworkTraffic: CollectNetworkTraffic reaches its loop, which reads
\* lastNetworkStats and lastNetworkTime
TrafficEnter(r) ==
    /\ ~panicked
    /\ jobs[r].pc = "start"
    /\ jobs' = [jobs EXCEPT ![r].pc = "traffic"]
    /\ panicked' \in (IF Writing(r) THEN BOOLEAN ELSE {FALSE})
    /\ UNCHANGED <<alertVars, savedMetrics, monVars, phase, ticker, svcVars,
                   apiVars, dataVars, started, hubVars, pumpVars, wire, idVars>>

\* the loop is done, SaveNetworkTraffic stores the row of the interface, and
\* collectNetworkTraffic returns
TrafficReturn(r) ==
    /\ ~panicked
    /\ jobs[r].pc = "traffic"
    /\ stamps' = [stamps EXCEPT !.traffic = Append(@, clock)]
    /\ jobs' = [jobs EXCEPT ![r].pc = "idle"]
    /\ UNCHANGED <<alertVars, savedMetrics, monVars, phase, ticker, svcVars,
                   apiVars, clock, cleaned, started, hubVars, pumpVars, wire,
                   panicked, idVars>>

(***************************************************************************)
(* The ticker of StartMetricsBroadcaster and the shutdown sequence of      *)
(* main.                                                                   *)
(***************************************************************************)
\* the goroutine of StartMetricsBroadcaster on a tick: the newest record of
\* system_metrics, when there is one, is broadcast
BroadcasterMetrics ==
    /\ ~panicked
    /\ ticker = "metrics"
    /\ pend["broadcaster"] = NoMsg
    /\ nextMsg <= MaxMsgs
    /\ IF savedMetrics # <<>>
       THEN BroadcastSystemMetrics("broadcaster", savedMetrics[Len(savedMetrics)])
       ELSE UNCHANGED <<pend, nextMsg>>
    /\ ticker' = "services"
    /\ UNCHANGED <<alertVars, savedMetrics, monVars, phase, otherVars, Clients, Send,
                   sendClosed, published, evicted, pumpVars, wire, panicked,
                   idVars>>

\* the same goroutine after the metrics: the rows of service_status are
\* broadcast, then it waits for the next tick
BroadcasterServices ==
    /\ ~panicked
    /\ ticker = "services"
    /\ nextMsg <= MaxMsgs
    /\ BroadcastServiceStatus("broadcaster", serviceStatus)
    /\ ticker' = "metrics"
    /\ UNCHANGED <<alertVars, savedMetrics, monVars, phase, otherVars, Clients, Send,
                   sendClosed, published, evicted, pumpVars, wire, panicked,
                   idVars>>

\* main receives SIGINT or SIGTERM and calls sched.Stop: cron.Stop() lets the
\* scheduler start no further job
Quit ==
    /\ ~panicked
    /\ phase = "run"
    /\ phase' = "stopping"
    /\ UNCHANGED <<alertVars, savedMetrics, monVars, ticker, otherVars, hubVars, pumpVars,
                   wire, panicked, idVars>>

\* Scheduler.Stop returns once the jobs that were running have returned; main
\* goes on to server.Shutdown
SchedulerStop ==
    /\ ~panicked
    /\ phase = "stopping"
    /\ pend["collect"] = NoMsg
    /\ pend["logs"] = NoMsg
    /\ phase' = "draining"
    /\ UNCHANGED <<alertVars, savedMetrics, monVars, ticker, otherVars, hubVars, pumpVars,
                   wire, panicked, idVars>>

\* server.Shutdown returns, with or without an error, and the process ends;
\* it neither closes nor waits for the hijacked WebSocket connections
ServerShutdown ==
    /\ ~panicked
    /\ phase = "draining"
    /\ phase' = "exited"
    /\ UNCHANGED <<alertVars, savedMetrics, monVars, ticker, otherVars, hubVars, pumpVars,
                   wire, panicked, idVars>>

(***************************************************************************)
(* Specifications.                                                         *)
(***************************************************************************)
Init ==
    /\ alerts = <<>>
    /\ systemLogs = <<>>
    /\ metrics = [cpu |-> 0, memory |-> 0, disk |-> 0]
    /\ cycle = 0
    /\ checked = [err |-> "none", writes |-> AllWritesOK]
    /\ savedMetrics = <<>>
    /\ Clients = {}
    /\ Send = [c \in ClientIds |-> <<>>]
    /\ sendClosed = [c \in ClientIds |-> FALSE]
    /\ conn = [c \in ClientIds |-> "none"]
    /\ handler = [c \in ClientIds |-> "none"]
    /\ rp = [c \in ClientIds |-> "none"]
    /\ wp = [c \in ClientIds |-> "none"]
    /\ pings = 0
    /\ received = "none"
    /\ pend = [p \in Publishers |-> NoMsg]
    /\ nextMsg = 1
    /\ published = <<>>
    /\ wire = [c \in ClientIds |->
                  [active |-> 0, resolved |-> 0, warning |-> 0, info |-> 0]]
    /\ evicted = {}
    /\ panicked = FALSE
    /\ ID = [c \in ClientIds |-> NoID]
    /\ now = 0
    /\ lastNetworkStats = <<>>
    /\ lastNetworkTime = 0
    /\ sensors = [cpu |-> [err |-> FALSE, percent |-> <<>>],
                  memory |-> [err |-> FALSE, UsedPercent |-> 0],
                  disk |-> [err |-> FALSE, partitions |-> <<>>],
                  time |-> 0]
    /\ collected = [metrics |-> [CPU |-> 0, Memory |-> 0, Disk |-> 0,
                                 Upload |-> 0, Download |-> 0],
                    err |-> "none", netErr |-> "none"]
    /\ networkTraffic = [input |-> [err |-> FALSE, stats |-> <<>>], time |-> 0,
                         err |-> "none", rows |-> <<>>]
    /\ phase = "run"
    /\ ticker = "metrics"
    /\ serviceStatus = <<>>
    /\ serviceRun = [n |-> 0, probes |-> <<>>, checked |-> <<>>, err |-> "none"]
    /\ response = [id |-> 0, lookupOK |-> TRUE, saveOK |-> TRUE, code |-> 0]
    /\ stamps = [alerts |-> <<>>, metrics |-> <<>>, traffic |-> <<>>]
    /\ clock = 0
    /\ cleaned = 0
    /\ jobs = [r \in Runs |-> IdleRun]
    /\ started = 0

\* alert evaluation with the store answering every query
NextAlerts == Evaluate

SpecAlerts == Init /\ [][NextAlerts]_vars

\* alert evaluation with lookups that can fail with a store error
NextAlertsStoreErr == Evaluate \/ EvaluateLookupError

SpecAlertsStoreErr == Init /\ [][NextAlertsStoreErr]_vars

\* alert evaluation with store writes that can fail
NextAlertsWriteErr == EvaluateWrites

SpecAlertsWriteErr == Init /\ [][NextAlertsWriteErr]_vars

\* the hub's loop: one request per step
HubRun ==
    \/ \E c \in ClientIds : HubRegister(c)
    \/ \E c \in ClientIds : HubUnregister(c)
    \/ \E p \in Publishers : HubBroadcast(p)

\* the hub, the connections and the metric cycle
NextHub ==
    \/ HubRun
    \/ CollectBelow
    \/ \E c \in ClientIds :
        \/ ServeWebSocket(c)
        \/ ReadMessage(c)
        \/ PongUnblock(c)
        \/ ReadError(c)
        \/ ReadPumpClose(c)
        \/ WriteMessage(c)
        \/ WriteFail(c)
        \/ WriteClosed(c)
        \/ KeepaliveFail(c)

SpecHub == Init /\ [][NextHub]_vars

\* the hub's loop is a goroutine of its own and is scheduled fairly
FairSpecHub == Init /\ [][NextHub]_vars /\ WF_vars(HubRun)

\* every goroutine is scheduled fairly: the hub's loop runs, the timer-driven
\* metric cycle publishes, a readPump whose socket is closed gets its read
\* error, and a readPump past a send or past its unregister goes on
FairSpecDuty ==
    /\ Init
    /\ [][NextHub]_vars
    /\ WF_vars(HubRun)
    /\ WF_vars(CollectBelow)
    /\ \A c \in ClientIds :
        /\ WF_vars(conn[c] = "closed" /\ ReadError(c))
        /\ WF_vars(PongUnblock(c))
        /\ WF_vars(ReadPumpClose(c))

\* the monitor sampling the network counters
NextNetwork == CollectNetwork

SpecNetwork == Init /\ [][NextNetwork]_vars

\* the monitor with failing probes
NextMonitor == CollectProbes

SpecMonitor == Init /\ [][NextMonitor]_vars

\* the scenario: the metric cycle feeds CpuSamples, the log push job runs,
\* the hub fans out to clients whose writePumps drain their channels
NextScenario ==
    \/ ScenarioCycle
    \/ pushSystemLogs
    \/ \E p \in Publishers : HubBroadcast(p)
    \/ \E c \in ScenarioClients :
        \/ ServeWebSocket(c)
        \/ HubRegister(c)
        \/ WriteMessage(c)

SpecScenario == Init /\ [][NextScenario]_vars

\* connections accepted while the clock runs
NextConn ==
    \/ Tick
    \/ \E c \in ClientIds :
        \/ ServeWebSocket(c)
        \/ HubRegister(c)
        \/ ReadError(c)
        \/ HubUnregister(c)
        \/ ReadPumpClose(c)

SpecConn == Init /\ [][NextConn]_vars

\* the server from its start to the end of the process: cron starts the
\* metric cycle while main has not called sched.Stop, connections are
\* accepted until server.Shutdown is called, and every goroutine runs until
\* the process ends
NextShutdown ==
    \/ Quit
    \/ SchedulerStop
    \/ ServerShutdown
    \/ phase = "run" /\ CollectBelow
    \/ phase # "exited" /\ HubRun
    \/ phase # "exited" /\ BroadcasterMetrics
    \/ phase # "exited" /\ BroadcasterServices
    \/ \E c \in ClientIds :
        \/ phase \in {"run", "stopping"} /\ ServeWebSocket(c)
        \/ phase # "exited" /\ ReadError(c)
        \/ phase # "exited" /\ ReadPumpClose(c)
        \/ phase # "exited" /\ WriteMessage(c)

SpecShutdown == Init /\ [][NextShutdown]_vars

\* the service monitor checking the four services
NextServices == CheckServices

SpecServices == Init /\ [][NextServices]_vars

\* alert evaluation and requests to resolve alerts
NextResolve == EvaluateCpuMemory \/ Resolve

SpecResolve == Init /\ [][NextResolve]_vars

\* the store filling up while time passes, and the cleanup job
NextCleanup ==
    \/ Hours
    \/ SaveMetrics([k \in KindSet |-> Min(Values(k))])
    \/ SaveNetworkTraffic
    \/ \E m \in CleanupRecords : CheckAlertsAt(m)
    \/ CleanupOldData

SpecCleanup == Init /\ [][NextCleanup]_vars

\* the runs cron starts of the metrics job and of the network traffic job,
\* and the hub's loop taking their messages
NextJobs ==
    \/ \E r \in Runs : CronStart(r)
    \/ \E r \in MetricRuns :
        \/ CollectEnter(r)
        \/ CollectReturn(r)
        \/ \E ok \in BOOLEAN : SaveStep(r, ok)
        \/ CheckAlertsEnter(r)
        \/ CheckAlertsReturn(r)
        \/ BroadcastStep(r)
        \/ RunReturn(r)
    \/ \E r \in TrafficRuns :
        \/ TrafficEnter(r)
        \/ TrafficReturn(r)
    \/ \E p \in Publishers : HubBroadcast(p)

SpecJobs == Init /\ [][NextJobs]_vars

\* the runs of the metrics job, whose CheckAlerts makes its lookup and its
\* writes in separate steps, and requests to resolve alerts, which the HTTP
\* server handles in goroutines of their own
NextResolveRace ==
    \/ \E r \in MetricRuns :
        \/ CronStart(r)
        \/ CollectEnter(r)
        \/ CollectReturn(r)
        \/ \E ok \in BOOLEAN : SaveStep(r, ok)
        \/ CheckAlertsEnter(r)
        \/ CheckAlertsReturn(r)
        \/ BroadcastStep(r)
        \/ RunReturn(r)
    \/ \E p \in Publishers : HubBroadcast(p)
    \/ Resolve

SpecResolveRace == Init /\ [][NextResolveRace]_vars

\* the two senders of system_metrics messages: the metric cycle and the
\* ticker goroutine of StartMetricsBroadcaster, which has read its record
\* from the store when its message is offered to the hub
NextBroadcastOrder ==
    \/ CollectStamped
    \/ BroadcasterMetrics
    \/ BroadcasterServices
    \/ \E p \in Publishers : HubBroadcast(p)
    \/ \E c \in ClientIds :
        \/ ServeWebSocket(c)
        \/ HubRegister(c)
        \/ WriteMessage(c)

SpecBroadcastOrder == Init /\ [][NextBroadcastOrder]_vars

\* the hub with publishers of two message types (the metric cycle and the
\* ticker goroutine of StartMetricsBroadcaster) and two clients, of which
\* the first sends control messages and the second sends none
NextSubscribe ==
    \/ HubRun
    \/ CollectBelow
    \/ BroadcasterMetrics
    \/ BroadcasterServices
    \/ \E c \in ClientIds : ServeWebSocket(c)
    \/ \E c \in ScenarioClients :
        \/ ReadMessage(c)
        \/ PongUnblock(c)
        \/ ReadError(c)

SpecSubscribe == Init /\ [][NextSubscribe]_vars

\* the service monitor with lookups that can fail with a store error
NextServicesStoreErr == CheckServices \/ CheckServicesLookupError

SpecServicesStoreErr == Init /\ [][NextServicesStoreErr]_vars

\* the monitor sampling the network counters for the metrics record and for
\* the rows of network traffic
NextTraffic == CollectSample \/ CollectTraffic

SpecTraffic == Init /\ [][NextTraffic]_vars

(***************************************************************************)
(* Alert evaluation: properties.                                           *)
(***************************************************************************)
RowsOfKind(al, k) == {i \in 1..Len(al) : al[i].type = k}
ActiveRows(al, k) == {i \in 1..Len(al) : al[i].type = k /\ al[i].status = "active"}
LogsOfKind(lg, k) == {j \in 1..Len(lg) : lg[j].kind = k}
\* the rows a step appended to a table that had n rows
Appended(tbl, n) == {i \in 1..Len(tbl) : i > n}

\* C1: in every reachable state the alerts table holds at most one row with
\* status active for each of the types cpu, memory and disk.
C1_AtMostOneActivePerKind ==
    \A k \in KindSet : Cardinality(ActiveRows(alerts, k)) <= 1

\* C2: an evaluation that sees v > t for a kind with no active alert stored
\* appends exactly one alert of that kind, with status active, value v and
\* threshold t, writes exactly one event (a warning log row) for it and
\* leaves the older rows of that kind as they were.
C2_CreateOnExceed ==
    [][cycle' # cycle =>
        \A k \in KindSet :
            (metrics'[k] > Threshold(k) /\ ActiveRows(alerts, k) = {}) =>
                LET new == {i \in Appended(alerts', Len(alerts)) : alerts'[i].type = k}
                    ev  == {j \in Appended(systemLogs', Len(systemLogs)) :
                                systemLogs'[j].kind = k}
                IN /\ Cardinality(new) = 1
                   /\ \A i \in new : /\ alerts'[i].status = "active"
                                     /\ alerts'[i].value = metrics'[k]
                                     /\ alerts'[i].threshold = Threshold(k)
                   /\ Cardinality(ev) = 1
                   /\ \A j \in ev : systemLogs'[j].level = "warning"
                   /\ \A i \in RowsOfKind(alerts, k) : alerts'[i] = alerts[i]
    ]_vars

\* C2 witness: the latest evaluation created the newest alert row, the only
\* active one of its kind, and wrote its event.
C2_Witness ==
    /\ cycle > 0
    /\ alerts # <<>>
    /\ systemLogs # <<>>
    /\ alerts[Len(alerts)].status = "active"
    /\ ActiveRows(alerts, alerts[Len(alerts)].type) = {Len(alerts)}
    /\ alerts[Len(alerts)].value = metrics[alerts[Len(alerts)].type]
    /\ systemLogs[Len(systemLogs)] =
           [level |-> "warning", kind |-> alerts[Len(alerts)].type]

\* C3: an evaluation with v > t made while an active alert of that kind is
\* stored only updates that alert in place: the number of rows of that kind
\* does not grow, the alert's value becomes v and it stays active, and no
\* event is written for that kind.
C3_UpdateInPlace ==
    [][cycle' # cycle =>
        \A k \in KindSet :
            (metrics'[k] > Threshold(k) /\ ActiveRows(alerts, k) # {}) =>
                /\ Cardinality(RowsOfKind(alerts', k)) = Cardinality(RowsOfKind(alerts, k))
                /\ alerts'[FirstActive(alerts, k)].value = metrics'[k]
                /\ alerts'[FirstActive(alerts, k)].status = "active"
                /\ LogsOfKind(systemLogs', k) = LogsOfKind(systemLogs, k)
    ]_vars

\* C4: an evaluation with v <= t (v = t included) made while an active alert
\* of that kind is stored changes exactly that alert to resolved and writes
\* exactly one resolved event (an info log row); an evaluation with v <= t
\* made while no active alert of that kind is stored changes no alert of that
\* kind and writes no event for it; a resolved alert is never changed again.
C4_ResolveOnce ==
    [][cycle' # cycle =>
        \A k \in KindSet :
            metrics'[k] <= Threshold(k) =>
                LET ev == {j \in Appended(systemLogs', Len(systemLogs)) :
                                systemLogs'[j].kind = k}
                IN /\ RowsOfKind(alerts', k) = RowsOfKind(alerts, k)
                   /\ ActiveRows(alerts', k) = {}
                   /\ \A i \in RowsOfKind(alerts, k) :
                        alerts'[i] = [alerts[i] EXCEPT !.status = "resolved"]
                   /\ Cardinality(ev) = Cardinality(ActiveRows(alerts, k))
                   /\ Cardinality(ev) <= 1
                   /\ \A j \in ev : systemLogs'[j].level = "info"
    ]_vars

(***************************************************************************)
(* The scenario: properties.                                               *)
(***************************************************************************)
\* C5: once the cpu samples 70, 85, 90, 75 have been evaluated and a log
\* push made after the last of them has been published, the client, which
\* was registered before the first sample and still is, and which has
\* written everything the hub queued for it, has observed exactly one
\* creation and exactly one resolution: either as "alert" messages (one with
\* status active, one with status resolved) or as the rows of the
\* "system_log" messages (one warning row, one info row).
C5_OneCreationOneResolutionObserved ==
    \A c \in ScenarioClients \cap Clients :
        ( /\ cycle = Len(CpuSamples)
          /\ \A p \in Publishers : pend[p] = NoMsg
          /\ published # <<>>
          /\ published[Len(published)].type = "system_log"
          /\ published[Len(published)].data = NewestLogs(LogPushLimit)
          /\ Send[c] = <<>> )
        => \/ wire[c].active = 1 /\ wire[c].resolved = 1
           \/ wire[c].warning = 1 /\ wire[c].info = 1

(***************************************************************************)
(* The hub: properties.                                                    *)
(***************************************************************************)
\* the hub messages queued in client c's channel, oldest first
HubQueue(c) == SelectSeq(Send[c], LAMBDA m : m.type # "pong")

\* the hub messages queued for c are the latest published ones, none missing
GaplessSuffix(c) ==
    LET q == HubQueue(c)
    IN /\ Len(q) <= Len(published)
       /\ \A i \in 1..Len(q) : q[i] = published[Len(published) - Len(q) + i]

\* C6: in the step in which the hub handles a publish, every registered
\* client whose channel is full is removed from Clients and its channel is
\* closed, with nothing added to it, and every other registered client gets
\* the message appended to its channel and stays registered and open; so the
\* channel of a registered client always holds the latest published messages
\* with none missing, whatever happens to the other clients.
C6_FullSubscriberEvicted ==
    /\ [](\A c \in Clients : GaplessSuffix(c))
    /\ [][\A p \in Publishers :
        (pend[p] # NoMsg /\ pend'[p] = NoMsg) =>
            \A c \in Clients :
                IF Len(Send[c]) >= SendCap
                THEN /\ c \notin Clients'
                     /\ sendClosed'[c]
                     /\ Send'[c] = Send[c]
                ELSE /\ c \in Clients'
                     /\ ~sendClosed'[c]
                     /\ Send'[c] = Append(Send[c], pend[p])
      ]_vars

\* C6 witness: the hub has just handled the publish that evicted a client
\* whose channel was full of the first messages, never drained, and
\* delivered the message to another client, which is still registered.
C6_Witness ==
    \E c \in evicted : \E d \in Clients :
        /\ pend["collect"] = NoMsg
        /\ Len(published) = SendCap + 1
        /\ sendClosed[c]
        /\ Send[c] = SubSeq(published, 1, SendCap)
        /\ ~sendClosed[d]
        /\ Send[d] # <<>>
        /\ Send[d][Len(Send[d])] = published[Len(published)]

\* C7: every request offered to the hub is eventually taken: a handler
\* blocked in Register, a readPump blocked in Unregister and a publisher
\* blocked in Broadcast all get past their send.
C7_RequestsEventuallyTaken ==
    /\ \A c \in ClientIds : (handler[c] = "register") ~> (handler[c] = "done")
    /\ \A c \in ClientIds : (rp[c] = "unregister") ~> (rp[c] # "unregister")
    /\ \A p \in Publishers : (pend[p] # NoMsg) ~> (pend[p] = NoMsg)

\* the messages of q are in the order in which the hub took them
InPublishOrder(q) ==
    \A i \in 1..Len(q) : \A j \in 1..Len(q) :
        i < j => PosIn(published, q[i]) < PosIn(published, q[j])

\* C8: the hub messages queued for a client are always in publish order, and
\* a step that takes a message out of a client's channel takes the oldest
\* one: of two messages in the channel, the one published first is dequeued
\* and written first.
C8_PublishOrderPerSubscriber ==
    /\ [](\A c \in ClientIds : InPublishOrder(HubQueue(c)))
    /\ [][\A c \in ClientIds :
            Len(Send'[c]) < Len(Send[c]) => Send'[c] = Tail(Send[c])
      ]_vars

\* C8 witness: the second and third published messages are queued for a
\* registered client, the older one first, after the first one has left
\* the channel.
C8_Witness ==
    \E c \in Clients :
        /\ Len(published) >= 3
        /\ wp[c] = "run"
        /\ Send[c] = SubSeq(published, 2, 3)

\* C9: when the hub takes an unregister for a client that is not in Clients,
\* Clients and every client's channel content are unchanged, no channel is
\* closed and nothing panics.
C9_UnregisterAbsentIsNoOp ==
    [][\A c \in ClientIds :
        (rp[c] = "unregister" /\ rp'[c] = "closing" /\ c \notin Clients) =>
            /\ Clients' = Clients
            /\ Send' = Send
            /\ sendClosed' = sendClosed
            /\ ~panicked'
    ]_vars

\* C9 witness: the hub has taken the unregister of a client's readPump after
\* it had evicted that client, while another client is registered.
C9_Witness ==
    \E c \in evicted : \E d \in Clients :
        /\ rp[c] = "closing"
        /\ sendClosed[c]
        /\ ~sendClosed[d]
        /\ ~panicked

(***************************************************************************)
(* Client identifiers: properties.                                         *)
(***************************************************************************)
\* C10: no two clients registered with the hub carry the same ID.
C10_UniqueIDs ==
    \A c \in Clients : \A d \in Clients : c # d => ID[c] # ID[d]

\* C11: the subscriber set, and with it the closing of outbound queues, is
\* changed only by steps of the hub's own loop; the connection handler, the
\* two per-subscriber duties and the publishers never change it, they only
\* hand the hub a register, unregister or publish request.
C11_SetMutatedOnlyByHubLoop ==
    [][(Clients' # Clients \/ sendClosed' # sendClosed) => HubRun]_vars

\* C11: the hub has removed one subscriber at its readPump's request while
\* another subscriber, registered through the handler, is still in the set
C11_Witness ==
    \E c, d \in ClientIds :
        /\ c # d
        /\ rp[c] = "done"
        /\ c \notin Clients
        /\ sendClosed[c]
        /\ d \in Clients
        /\ handler[d] = "done"

\* one of the two duties of c has failed: readPump got a read error and is
\* in its deferred unregister, or writePump returned and closed the socket
DutyFailed(c) ==
    \/ rp[c] = "unregister"
    \/ wp[c] = "done" /\ conn[c] = "closed"

\* the readPump of c is blocked in the pong send and no publish is left that
\* would make the hub look at the full channel
BlockedAfterLastPublish(c) ==
    /\ rp[c] = "pong"
    /\ nextMsg > MaxMsgs
    /\ \A p \in Publishers : pend[p] = NoMsg

\* C12: once a duty of a registered subscriber has failed, the connection is
\* eventually closed and the subscriber is eventually absent from the set
\* (as long as a publish is still to come for a readPump blocked in a send).
C12_FailedDutyLeadsToUnregistration ==
    \A c \in ClientIds :
        (DutyFailed(c) /\ c \in Clients)
            ~> ((c \notin Clients /\ conn[c] = "closed")
                \/ BlockedAfterLastPublish(c))

\* C12 but for the runs in which a pong send on a closed channel terminated
\* the process
C12_UnregisteredUnlessPanicked ==
    \A c \in ClientIds :
        (DutyFailed(c) /\ c \in Clients)
            ~> ((c \notin Clients /\ conn[c] = "closed")
                \/ BlockedAfterLastPublish(c) \/ panicked)

\* a step taken by one of the two duties of c, or by the hub on c's
\* unregister request
DutyStep(c) ==
    \/ ReadMessage(c)
    \/ PongUnblock(c)
    \/ ReadError(c)
    \/ ReadPumpClose(c)
    \/ WriteMessage(c)
    \/ WriteFail(c)
    \/ WriteClosed(c)
    \/ KeepaliveFail(c)
    \/ HubUnregister(c)

\* the metric cycle can run: the process is alive and the publisher is not
\* waiting for the hub
CanCollect == ~panicked /\ pend["collect"] = NoMsg

\* C13: the failure of a duty of subscriber c and every step of its teardown
\* leave the membership and the queue of every other subscriber unchanged,
\* leave the publish requests alone, and leave the metric cycle able to run.
C13_TeardownIsolated ==
    [][\A c \in ClientIds :
          (DutyStep(c) /\ (DutyFailed(c) \/ DutyFailed(c)'))
              => /\ \A d \in ClientIds \ {c} :
                      /\ (d \in Clients') = (d \in Clients)
                      /\ Send'[d] = Send[d]
                      /\ sendClosed'[d] = sendClosed[d]
                 /\ pend' = pend
                 /\ published' = published
                 /\ CanCollect => CanCollect']_vars

\* C14: no goroutine is ever suspended in a send into a subscriber's
\* outbound queue: the hub's publish never waits (HubBroadcast is one step
\* whatever the queues hold), and no readPump waits in the pong send.
C14_QueueSendsNeverBlock ==
    \A c \in ClientIds : rp[c] # "pong"

\* the step in which handleMessage gets past the pong send for a ping of c:
\* at once when the ping is read, or later when the blocked send goes on
PingHandled(c) ==
    \/ ReadMessage(c) /\ pings' = pings + 1 /\ rp'[c] # "pong"
    \/ PongUnblock(c)

\* C15: handling a ping of c puts exactly one pong on the queue of c, puts
\* nothing on any other subscriber's queue and leaves the set unchanged.
C15_OnePongOnOwnQueue ==
    [][\A c \in ClientIds :
          PingHandled(c)
              => /\ Send'[c] = Append(Send[c], Pong)
                 /\ \A d \in ClientIds \ {c} : Send'[d] = Send[d]
                 /\ Clients' = Clients]_vars

\* C16: when readPump hands handleMessage a message whose type is neither
\* 'subscribe' nor 'ping', nothing is enqueued on any queue, the set is
\* unchanged, and the sender stays open, registered if it was, with its
\* readPump back in the read loop.
C16_UnknownTypeIgnored ==
    [][\A c \in ClientIds :
          (ReadMessage(c) /\ received' = "other")
              => /\ Send' = Send
                 /\ Clients' = Clients
                 /\ sendClosed' = sendClosed
                 /\ conn'[c] = "open"
                 /\ rp'[c] = "read"
                 /\ wp' = wp
                 /\ ~panicked']_vars

\* C16: the only client whose readPump has started is registered, has a full
\* queue, and has had a message of unknown type ignored: it is still open,
\* registered and reading
C16_Witness ==
    /\ received = "other"
    /\ rp["c1"] = "read"
    /\ rp["c2"] = "none"
    /\ conn["c1"] = "open"
    /\ "c1" \in Clients
    /\ Len(Send["c1"]) = SendCap

\* a step in which getNetworkSpeed took a sample and stored it
Sampled == lastNetworkTime' > lastNetworkTime

\* field f of some interface with a stored entry is lower in the new sample
Decreased(f) ==
    \E n \in DOMAIN lastNetworkStats :
        lastNetworkStats'[n][f] < lastNetworkStats[n][f]

\* the bytes gained in field f between the stored entries old and the
\* entries new, over the interfaces N; a counter that went down gains nothing
RECURSIVE Gain(_, _, _, _)
Gain(N, new, old, f) ==
    IF N = {}
    THEN 0
    ELSE LET n == CHOOSE x \in N : TRUE
         IN (IF new[n][f] >= old[n][f] THEN new[n][f] - old[n][f] ELSE 0)
                + Gain(N \ {n}, new, old, f)

\* r is num / den rounded to the nearest integer
Nearest(r, num, den) ==
    /\ 2 * (r * den - num) <= den
    /\ 2 * (num - r * den) <= den

\* the returned field is the gain of counter f over the interfaces that had a
\* stored entry, in MB per second of the time since the previous sample,
\* rounded to hundredths
RateIs(field, f) ==
    Nearest(collected'.metrics[field],
            100 * Gain(DOMAIN lastNetworkStats, lastNetworkStats',
                       lastNetworkStats, f),
            MiB * (lastNetworkTime' - lastNetworkTime))

\* C17: when a byte counter is lower than in the stored sample, it adds
\* nothing to the rate: the rate is that of the other interfaces' gains (0 if
\* there are none), not the wrapped unsigned difference.
C17_DecreaseContributesZero ==
    [][Sampled =>
          /\ Decreased("BytesSent") => RateIs("Upload", "BytesSent")
          /\ Decreased("BytesRecv") => RateIs("Download", "BytesRecv")]_vars

\* C18: when no byte counter of a direction went down and time has passed,
\* the rate is the byte gain, summed over the interfaces that are in the
\* sample and had a stored entry, divided by 1,048,576 times the seconds
\* passed, rounded to two decimals; an interface without a stored entry adds
\* nothing.
C18_RateOfNonDecreasingCounters ==
    [][Sampled =>
          /\ ~Decreased("BytesSent") => RateIs("Upload", "BytesSent")
          /\ ~Decreased("BytesRecv") => RateIs("Download", "BytesRecv")]_vars

\* C18: a sample of both interfaces taken two seconds after the stored one
\* gave 0.13 MB/s up (0.125 rounded) and 0.38 MB/s down (0.375 rounded)
C18_Witness ==
    /\ collected.netErr = "nil"
    /\ DOMAIN lastNetworkStats = IfNames
    /\ collected.metrics.Upload = 13
    /\ collected.metrics.Download = 38

\* C19: a collection whose clock reading equals the time of the stored
\* sample: getNetworkSpeed returns an error, the record has upload 0 and
\* download 0, the collection still returns the record, with the other
\* fields measured, and no error; the stored sample is kept.
C19_ZeroElapsedTime ==
    [][sensors'.time = lastNetworkTime =>
          /\ collected'.netErr \in {"time difference is zero", "counters"}
          /\ collected'.metrics.Upload = 0
          /\ collected'.metrics.Download = 0
          /\ collected'.err = "nil"
          /\ collected'.metrics.CPU = Round(sensors'.cpu.percent[1], 10)
          /\ collected'.metrics.Memory = Round(sensors'.memory.UsedPercent, 10)
          /\ lastNetworkStats' = lastNetworkStats
          /\ lastNetworkTime' = lastNetworkTime]_vars

\* C19: with counters stored for both interfaces, a collection at the very
\* time of the stored sample got the zero time difference error and
\* returned its record
C19_Witness ==
    /\ collected.netErr = "time difference is zero"
    /\ collected.err = "nil"
    /\ collected.metrics.CPU > 0
    /\ collected.metrics.Upload = 0
    /\ sensors.time = lastNetworkTime
    /\ lastNetworkTime > 0
    /\ DOMAIN lastNetworkStats = IfNames

\* the readings of the partitions whose disk.Usage succeeded in the latest
\* collection
UsableReadings == SelectSeq(sensors.disk.partitions, LAMBDA u : ~u.err)

\* C20: whatever probes failed, a collection returns a record and no error;
\* the field of a failed probe (CPU, memory, the listing of the disks, the
\* network) is 0 and the field of a probe that answered is its reading
\* rounded to hundredths, for the disk the mean of the partitions read.
C20_CollectNeverFails ==
    collected.err # "none" =>
        /\ collected.err = "nil"
        /\ sensors.cpu.err => collected.metrics.CPU = 0
        /\ (~sensors.cpu.err /\ sensors.cpu.percent # <<>>)
               => Nearest(collected.metrics.CPU, sensors.cpu.percent[1], 10)
        /\ sensors.memory.err => collected.metrics.Memory = 0
        /\ ~sensors.memory.err
               => Nearest(collected.metrics.Memory,
                          sensors.memory.UsedPercent, 10)
        /\ sensors.disk.err => collected.metrics.Disk = 0
        /\ (~sensors.disk.err /\ UsableReadings # <<>>)
               => Nearest(collected.metrics.Disk, SumUsage(UsableReadings),
                          10 * Len(UsableReadings))
        /\ collected.netErr # "nil"
               => /\ collected.metrics.Upload = 0
                  /\ collected.metrics.Download = 0

\* C20: a collection in which the CPU probe and the network counters failed,
\* memory answered and one of two partitions could be read returned, without
\* error, a record with memory and disk measured and the rest 0
C20_Witness ==
    /\ sensors.cpu.err
    /\ ~sensors.memory.err
    /\ sensors.disk = [err |-> FALSE,
                       partitions |-> <<[err |-> TRUE, UsedPercent |-> 0],
                                        [err |-> FALSE, UsedPercent |-> 60125]>>]
    /\ collected = [metrics |-> [CPU |-> 0, Memory |-> 4567, Disk |-> 6013,
                                 Upload |-> 0, Download |-> 0],
                    err |-> "nil", netErr |-> "counters"]

\* C21: every CheckAlerts call returns no error, whatever its store writes
\* did, and runs the block of each of the three kinds: a kind above its
\* threshold whose alert write succeeded has an active alert with the new
\* value, a kind not above it whose alert write succeeded has none, and a
\* kind that went above with no active alert gets its warning row when the
\* log write succeeded, also when writes of an earlier kind failed.
C21_CheckAlertsNeverFails ==
    [][cycle' # cycle =>
        /\ checked'.err = "nil"
        /\ \A k \in KindSet :
            /\ (metrics'[k] > Threshold(k) /\ checked'.writes[k].alert)
                   => \E i \in ActiveRows(alerts', k) :
                          alerts'[i].value = metrics'[k]
            /\ (metrics'[k] <= Threshold(k) /\ checked'.writes[k].alert)
                   => ActiveRows(alerts', k) = {}
            /\ ( /\ metrics'[k] > Threshold(k)
                 /\ ActiveRows(alerts, k) = {}
                 /\ checked'.writes[k].log)
                   => \E j \in Appended(systemLogs', Len(systemLogs)) :
                          systemLogs'[j] = [level |-> "warning", kind |-> k]]_vars

\* C21: the first evaluation saw all three kinds above their thresholds and
\* its cpu writes failed: no cpu row was stored, the memory and the disk
\* alert were, and the call returned no error
C21_Witness ==
    /\ cycle = 1
    /\ checked.err = "nil"
    /\ checked.writes["cpu"] = [alert |-> FALSE, log |-> FALSE]
    /\ metrics["cpu"] > Threshold("cpu")
    /\ RowsOfKind(alerts, "cpu") = {}
    /\ ActiveRows(alerts, "memory") # {}
    /\ ActiveRows(alerts, "disk") # {}
    /\ LogsOfKind(systemLogs, "disk") # {}

\* C22: what a CheckAlerts call does to the alerts of kind j depends on the
\* value of j alone, whatever the values of the other kinds do.  When j is not
\* above its threshold and has no active alert, the alerts of j are unchanged
\* (status, value, count).  When j is above, no alert of j changes its status,
\* only its first active alert can change its value, to the value of j, and
\* an alert created for j carries the value of j.  When j is not above, no
\* alert of j is created or changes its value, and only its first active
\* alert changes its status, to resolved.
C22_KindsIndependent ==
    [][cycle' # cycle =>
        \A j \in KindSet :
            LET old == RowsOfKind(alerts, j)
                new == {i \in Appended(alerts', Len(alerts)) : alerts'[i].type = j}
                f == FirstActive(alerts, j)
            IN /\ (metrics'[j] <= Threshold(j) /\ ActiveRows(alerts, j) = {})
                      => /\ new = {}
                         /\ \A i \in old : alerts'[i] = alerts[i]
               /\ metrics'[j] > Threshold(j)
                      => /\ \A i \in old :
                              \/ alerts'[i] = alerts[i]
                              \/ /\ i = f
                                 /\ alerts'[i] =
                                        [alerts[i] EXCEPT !.value = metrics'[j]]
                         /\ \A i \in new : alerts'[i].value = metrics'[j]
               /\ metrics'[j] <= Threshold(j)
                      => /\ new = {}
                         /\ \A i \in old :
                              \/ alerts'[i] = alerts[i]
                              \/ /\ i = f
                                 /\ alerts'[i] =
                                        [alerts[i] EXCEPT !.status = "resolved"]]_vars

\* C22: with a memory and a disk alert active, a second call in which the
\* cpu value went above its threshold created the cpu alert and left the
\* memory and the disk alert as they were
C22_Witness ==
    /\ cycle = 2
    /\ Len(alerts) = 3
    /\ alerts[1] = [id |-> 1, type |-> "memory", value |-> AlertMemory + 5,
                    threshold |-> AlertMemory, status |-> "active"]
    /\ alerts[2] = [id |-> 2, type |-> "disk", value |-> AlertDisk + 5,
                    threshold |-> AlertDisk, status |-> "active"]
    /\ alerts[3].type = "cpu"
    /\ alerts[3].status = "active"
\* C27: after every rate sample the stored baseline is replaced: the time of
\* the previous sample is the time of this one, and the stored map holds
\* exactly the interfaces of the reading the sample obtained
C27_BaselineReplaced ==
    [][\A netIn \in NetInputs :
          CollectSystemMetrics(CpuOK, MemOK, DiskOK, netIn, sensors'.time)
              => /\ lastNetworkTime' = sensors'.time
                 /\ ~netIn.err =>
                        DOMAIN lastNetworkStats' = DOMAIN netIn.stats]_vars

\* C27, for the samples that returned speeds only: a sample without eth0
\* leaves no entry for eth0
C27_StaleEntryDropped ==
    [][\A netIn \in NetInputs :
          (/\ ~netIn.err
           /\ sensors'.time # lastNetworkTime
           /\ CollectSystemMetrics(CpuOK, MemOK, DiskOK, netIn, sensors'.time))
              => DOMAIN lastNetworkStats' = DOMAIN netIn.stats]_vars

(***************************************************************************)
(* Shutdown: properties.                                                   *)
(***************************************************************************)
\* C23: on shutdown every timer-driven task is cancelled and every subscriber
\* is closed and unregistered: once sched.Stop has returned no periodic task
\* offers a message to the hub again, and when the shutdown sequence has
\* completed the hub's set of clients is empty
C23_ShutdownStopsAll ==
    /\ [](phase = "exited" => Clients = {})
    /\ [][(phase = "draining" \/ phase = "exited")
            => (\A p \in Publishers : pend'[p] = NoMsg \/ pend'[p] = pend[p])]_vars

(***************************************************************************)
(* The service monitor: properties.                                        *)
(***************************************************************************)
\* the check of service name met a refused connection or an answer that
\* took too long
Unreachable(name, p) ==
    \/ ~p.dial
    \/ p.ms >= (IF name = "web" THEN 1000 ELSE 500)

\* the row of service_status of service name
StatusRow(name) == serviceStatus[FirstByName(serviceStatus, name)]

\* C24: a check that cannot connect or is too slow is recorded as status
\* "error" and is not fatal: CheckAllServices returns nil, has checked all
\* four services in order, and has stored for each the status of this run
\* and one log row
C24_FailedCheckNotFatal ==
    serviceRun.n > 0 =>
        /\ serviceRun.err = "nil"
        /\ serviceRun.checked = Services
        /\ Len(serviceStatus) = Len(Services)
        /\ Len(systemLogs) = serviceRun.n * Len(Services)
        /\ \A i \in 1..Len(Services) :
            LET name == Services[i]
                p == serviceRun.probes[name]
                log == systemLogs[Len(systemLogs) - Len(Services) + i]
            IN /\ FirstByName(serviceStatus, name) # 0
               /\ StatusRow(name).status = check(name, p).status
               /\ log.kind = name
               /\ Unreachable(name, p) =>
                      /\ StatusRow(name).status = "error"
                      /\ log.level = "error"

\* the database cannot be reached, the storage service is too slow, and the
\* mail service answers in time: its status is stored all the same
C24_Witness ==
    /\ serviceRun.n > 0
    /\ ~serviceRun.probes["database"].dial
    /\ serviceRun.probes["storage"].ms >= 500
    /\ StatusRow("database").status = "error"
    /\ StatusRow("storage").status = "error"
    /\ StatusRow("mail").status = "running"

KeptAlerts(rows, t) ==
    SelectSeq(rows, LAMBDA r : \/ r.row.status = "active"
                               \/ r.at >= t - AlertRetentionHours)

\* the rows created within the retention window before time t
RecentRows(rows, t) == SelectSeq(rows, LAMBDA r : r.at >= t - HistoryHours)

\* C26: the cleanup deletes only expired data: the active alerts, the
\* resolved alerts updated within the last 7 days, and the rows of
\* system_metrics and network_traffic created within the retention window
\* are all in the store after it
C26_CleanupKeepsUnexpired ==
    [][CleanupOldData =>
         /\ KeptAlerts(Zip(alerts', stamps'.alerts), clock)
                = KeptAlerts(Zip(alerts, stamps.alerts), clock)
         /\ RecentRows(Zip(savedMetrics', stamps'.metrics), clock)
                = RecentRows(Zip(savedMetrics, stamps.metrics), clock)
         /\ RecentRows(Zip(stamps'.traffic, stamps'.traffic), clock)
                = RecentRows(Zip(stamps.traffic, stamps.traffic), clock)]_vars

\* a cleanup deleted rows and kept an active alert older than 7 days and a
\* metric row as old as the retention window
C26_Witness ==
    /\ cleaned > 0
    /\ \E i \in 1..Len(alerts) :
        /\ alerts[i].status = "active"
        /\ stamps.alerts[i] < clock - AlertRetentionHours
    /\ \E i \in 1..Len(savedMetrics) : stamps.metrics[i] = clock - HistoryHours

(***************************************************************************)
(* The cron jobs: properties.                                              *)
(***************************************************************************)
\* C28: lastNetworkStats and lastNetworkTime are never accessed concurrently:
\* while a run is inside getNetworkSpeed no other run is inside it or inside
\* the loop of CollectNetworkTraffic
C28_SampleStateNotShared ==
    \A r \in MetricRuns :
        jobs[r].pc = "speed" =>
            \A q \in Runs \ {r} : jobs[q].pc \notin {"speed", "traffic"}

\* C29: the alert evaluations are serialized: at most one execution of
\* CheckAlerts is between its lookup and its return at any time
C29_EvaluationsSerialized ==
    \A r \in MetricRuns : \A q \in MetricRuns \ {r} :
        ~(jobs[r].pc = "check" /\ jobs[q].pc = "check")

\* the steps of collectSystemMetrics in the order of the source
CycleSteps == <<"collect", "save", "check", "broadcast">>

\* C30: a run of the metric cycle collects, persists, evaluates the alerts
\* and broadcasts, in this order; a run whose SaveMetrics failed has made
\* the first two steps only and has returned, and neither an alert
\* evaluation nor a broadcast is the step of a run whose record was not
\* persisted
C30_CycleStopsWhenSaveFails ==
    /\ [](\A r \in MetricRuns :
             /\ Len(jobs[r].steps) <= Len(CycleSteps)
             /\ jobs[r].steps = SubSeq(CycleSteps, 1, Len(jobs[r].steps))
             /\ jobs[r].saved = "failed" =>
                    /\ jobs[r].steps = <<"collect", "save">>
                    /\ jobs[r].pc = "idle")
    /\ [][/\ (alerts' # alerts \/ cycle' # cycle) =>
                 \E r \in MetricRuns :
                     /\ jobs[r].saved = "ok"
                     /\ jobs'[r].steps = <<"collect", "save", "check">>
          /\ \A r \in MetricRuns :
                 (pend'[r] # pend[r] /\ pend'[r] # NoMsg) =>
                     /\ jobs[r].saved = "ok"
                     /\ jobs'[r].steps = CycleSteps]_vars

\* one run has returned after a failed SaveMetrics, with nothing stored,
\* evaluated or offered to the hub, while the other run went through its
\* four steps
C30_Witness ==
    /\ jobs["collect"].saved = "failed"
    /\ jobs["collect"].pc = "idle"
    /\ jobs["collect2"].steps = CycleSteps
    /\ Len(savedMetrics) = 1
    /\ cycle = 1
    /\ Len(published) = 1

(***************************************************************************)
(* The hub: the channel of a client and its membership.                    *)
(***************************************************************************)
\* C31: every registered client has an open channel; a step removes a client
\* from the set exactly when it closes the client's channel, a closed channel
\* stays closed, and no step of the hub's loop (a step that registers, takes
\* an unregister or takes a message) executes a close that panics (a close
\* of a channel that is already closed)
C31_QueueOpenWhileRegistered ==
    /\ [](\A c \in Clients : ~sendClosed[c])
    /\ [][/\ \A c \in ClientIds :
              /\ (c \in Clients /\ c \notin Clients')
                      <=> (~sendClosed[c] /\ sendClosed'[c])
              /\ sendClosed[c] => sendClosed'[c]
          /\ (\/ Clients' # Clients
              \/ published' # published
              \/ \E c \in ClientIds : rp[c] = "unregister" /\ rp'[c] = "closing")
                 => panicked' = panicked]_vars

\* C31: one client was evicted for a full channel and the unregister its
\* readPump sent afterwards was taken; the other client was removed by its
\* unregister; both channels are closed and the process runs
C31_Witness ==
    /\ ~panicked
    /\ \E c \in ClientIds : \E d \in ClientIds \ {c} :
        /\ c \in evicted /\ sendClosed[c] /\ rp[c] = "done"
        /\ d \notin evicted /\ sendClosed[d] /\ rp[d] = "done"
    /\ Clients = {}

\* C32: no goroutine sends on client.Send after the channel was closed: no
\* readPump is blocked in its pong send on a closed channel, and no send on
\* a closed channel has been executed (it panics)
C32_NoSendAfterClose ==
    /\ ~panicked
    /\ \A c \in ClientIds : sendClosed[c] => rp[c] # "pong"

(***************************************************************************)
(* Alert evaluation: lookups that fail, and requests to resolve.           *)
(***************************************************************************)
\* C33: an evaluation appends an active alert of a kind only when the table
\* holds no active alert of that kind, also when its lookup fails with a
\* store error
C33_CreateOnlyWhenNoneActive ==
    [][cycle' # cycle =>
        \A k \in KindSet :
            (\E i \in Appended(alerts', Len(alerts)) :
                    alerts'[i].type = k /\ alerts'[i].status = "active")
                => ActiveRows(alerts, k) = {}]_vars

\* C34: an alert that ResolveAlert has resolved stays resolved: no step sets
\* the status of a stored alert from resolved to another value (the runs of
\* the metrics job evaluate a cpu value above its threshold, so every
\* resolved alert was resolved by ResolveAlert)
C34_ResolvedStaysResolved ==
    [][\A i \in 1..Len(alerts) :
            alerts[i].status = "resolved" => alerts'[i].status = "resolved"]_vars

(***************************************************************************)
(* The senders of system_metrics messages: properties.                     *)
(***************************************************************************)
\* the places of the system_metrics messages in a queue
MetricsAt(q) == {i \in 1..Len(q) : q[i].type = "system_metrics"}

\* C35: the system_metrics messages queued for a subscriber are in
\* non-decreasing order of the Timestamp of their records
C35_TimestampOrderPerSubscriber ==
    \A c \in ClientIds :
        \A i \in MetricsAt(Send[c]) : \A j \in MetricsAt(Send[c]) :
            i < j => Send[c][i].data[1].timestamp <= Send[c][j].data[1].timestamp

(***************************************************************************)
(* The periodic tasks after Scheduler.Stop: properties.                    *)
(***************************************************************************)
\* C36: once Scheduler.Stop has returned (main is in server.Shutdown or has
\* ended), no task started by Scheduler.Start offers a message to the hub:
\* the count of the messages offered stays as it is
C36_NoPublishAfterStop ==
    [][(phase = "draining" \/ phase = "exited") => nextMsg' = nextMsg]_vars

(***************************************************************************)
(* Control messages and delivery: properties.                              *)
(***************************************************************************)
\* C37: a step in which readPump hands a subscribe message to handleMessage
\* changes nothing of the hub, of the queues and of the pumps; and every
\* step in which the hub takes a message offers it to every registered
\* client, whatever control messages the client has sent: a client whose
\* channel has room gets it appended and stays registered, a client whose
\* channel is full is removed
C37_SubscribeChangesNoDelivery ==
    /\ [][(received' = "subscribe" /\ received # "subscribe")
            => UNCHANGED <<hubVars, conn, handler, rp, wp, pings, wire,
                           panicked>>]_vars
    /\ [][published' # published =>
            \A c \in Clients :
                IF Len(Send[c]) < SendCap
                THEN /\ Send'[c] = Append(Send[c], published'[Len(published')])
                     /\ c \in Clients'
                ELSE c \notin Clients']_vars

\* C37: the first client has sent a subscribe message and no ping, the
\* second client has sent nothing; both are registered and both have a
\* system_metrics and a service_status message queued
C37_Witness ==
    /\ received = "subscribe"
    /\ pings = 0
    /\ Clients = ClientIds
    /\ \A c \in ClientIds :
        {Send[c][i].type : i \in 1..Len(Send[c])}
            = {"system_metrics", "service_status"}

(***************************************************************************)
(* The service monitor with failing lookups: properties.                   *)
(***************************************************************************)
\* C38: the service_status table holds at most one row for every service
\* name
C38_OneRowPerService ==
    \A i \in 1..Len(serviceStatus) : \A j \in 1..Len(serviceStatus) :
        serviceStatus[i].name = serviceStatus[j].name => i = j

(***************************************************************************)
(* CollectNetworkTraffic: properties.                                      *)
(***************************************************************************)
\* the speed reported for counter f of interface n is the gain against the
\* stored entry, in MB per second of the time since lastNetworkTime, rounded
\* to hundredths
SpeedAgainstBaseline(speed, n, f) ==
    Nearest(speed,
            100 * (networkTraffic'.input.stats[n][f] - lastNetworkStats[n][f]),
            MiB * (networkTraffic'.time - lastNetworkTime))

\* C39: a run of CollectNetworkTraffic leaves lastNetworkStats and
\* lastNetworkTime as they were; a step that changes them is a collection
\* whose getNetworkSpeed returned without an error at the time it stored; an
\* interface without a stored entry is reported with both speeds 0, and for
\* an interface with a stored entry, when time has passed since
\* lastNetworkTime and the counter did not go down, the speed is the gain
\* against the stored entry over that time
C39_TrafficLeavesBaseline ==
    /\ [][networkTraffic' # networkTraffic =>
            /\ lastNetworkStats' = lastNetworkStats
            /\ lastNetworkTime' = lastNetworkTime
            /\ \A n \in DOMAIN networkTraffic'.rows :
                LET row == networkTraffic'.rows[n]
                    cur == networkTraffic'.input.stats[n]
                IN IF n \notin DOMAIN lastNetworkStats
                   THEN row.UploadSpeed = 0 /\ row.DownloadSpeed = 0
                   ELSE IF networkTraffic'.time = lastNetworkTime
                   THEN row.UploadSpeed = 0 /\ row.DownloadSpeed = 0
                   ELSE /\ cur.BytesSent >= lastNetworkStats[n].BytesSent
                            => SpeedAgainstBaseline(row.UploadSpeed, n, "BytesSent")
                        /\ cur.BytesRecv >= lastNetworkStats[n].BytesRecv
                            => SpeedAgainstBaseline(row.DownloadSpeed, n, "BytesRecv")]_vars
    /\ [][(lastNetworkStats' # lastNetworkStats
            \/ lastNetworkTime' # lastNetworkTime)
            => (collected'.netErr = "nil" /\ sensors'.time = lastNetworkTime')]_vars

\* C39: with an entry stored for the aggregate only, a run one second or
\* more later reported 0.75 MB/s up for it, and reported the interface
\* without an entry with its counters and both speeds 0
C39_Witness ==
    /\ networkTraffic.err = "nil"
    /\ DOMAIN networkTraffic.rows = IfNames
    /\ DOMAIN lastNetworkStats = {"all"}
    /\ networkTraffic.time = lastNetworkTime + 1
    /\ networkTraffic.rows["all"].UploadSpeed = 75
    /\ networkTraffic.rows["eth0"].Upload = 262144
    /\ networkTraffic.rows["eth0"].UploadSpeed = 0
    /\ networkTraffic.rows["eth0"].DownloadSpeed = 0

====
